---- MODULE Spec2Model ----
(***************************************************************************)
(* Model of the request-scoped tracing core of @ambak/nest-logger:         *)
(*   TraceContext   (src/src/context/trace-context.ts)                     *)
(*   RequestContext (src/context/request-context.ts, newest revision)      *)
(*   formatAwsLog   (formatters/aws + formatters/shared/trace-utils.ts)    *)
(*                                                                         *)
(* A JavaScript string is a sequence of one-character strings, so that     *)
(* split, padStart, slice, replace and the regular expressions of the      *)
(* source are computed character by character.  undefined and '' are both  *)
(* the empty sequence wherever the source only tests truthiness.           *)
(*                                                                         *)
(* crypto.randomBytes is an ideal source: the k-th draw of a run returns   *)
(* a value that no earlier draw returned and that occurs in no input.      *)
(***************************************************************************)
EXTENDS Integers, Sequences, FiniteSets, TLC

VARIABLES
    rng,      \* number of randomBytes draws made so far
    now,      \* index into Epochs: the wall clock read by Date.now()
    op,       \* codec: the parse function that built tc ("none" before any)
    hdr,      \* codec: the header text handed to that parse function
    tc,       \* codec: the TraceContext under study
    drawn,    \* codec: the values randomBytes returned while tc was built
    wire,     \* codec: the last serialised header [kind, s]
    ctxs,     \* request contexts, in creation order
    heap,     \* the Map objects behind RequestContext._metadata, by reference
    lastSet,  \* history: per context, the value last passed to setMetadata(k, .)
    out,      \* the value returned by the last RequestContext call
    rec,      \* formatter: the input log record
    fmt,      \* formatter: the record formatAwsLog returned
    spans,    \* spans: the TraceContext objects of one trace, in creation order
    maps,     \* spans: the Map objects behind TraceContext.traceState, by reference
    body,     \* sanitizer: the value handed to sanitizeBody
    clean,    \* sanitizer: what sanitizeBody(body) returned, and the calls it took
    again,    \* sanitizer: what sanitizeBody returned for that result
    globalLogType, \* formatters: the module variable globalLogType
    env,      \* formatters: process.env, the keys LOG_TYPE and PROJECT_ID
    services, \* formatters: the config of each BaseLoggerService built so far
    shaped,   \* formatters: the last record shaped, with what went in
    given,    \* serializers: the value handed to a serializer
    serialized,\* serializers: what the serializer returned, or that it threw
    app,      \* module: process.env.LOG_REGISTER, the registered module and the service built from it
    emitted,  \* module: the records handed to the logger so far
    objs,     \* cycles: the object graph handed to sanitizeBody, by reference
    frames,   \* cycles: the sanitizeBody calls in progress, innermost last
    ret,      \* cycles: the value the outermost call returned
    http,     \* interceptor: the HTTP requests in flight, by slot
    logs      \* interceptor: the log data handed to the logger, in order

vars == <<rng, now, op, hdr, tc, drawn, wire, ctxs, heap, lastSet, out, rec,
          fmt, spans, maps, body, clean, again, globalLogType, env,
          services, shaped, given, serialized, app, emitted, objs,
          frames, ret, http, logs>>

-----------------------------------------------------------------------------
(* Bounds of the model *)

MaxCtx == 3

-----------------------------------------------------------------------------
(* JavaScript string primitives *)

Digits == {"0", "1", "2", "3", "4", "5", "6", "7", "8", "9"}
HexLower == Digits \cup {"a", "b", "c", "d", "e", "f"}
HexUpper == {"A", "B", "C", "D", "E", "F"}
HexAny == HexLower \cup HexUpper

Rep(c, n) == [i \in 1..n |-> c]

Min(a, b) == IF a < b THEN a ELSE b

\* /^[0-9a-f]{n}$/.test(s)
IsHexLower(s, n) == Len(s) = n /\ \A i \in 1..Len(s) : s[i] \in HexLower

\* /^[0-9a-f]{n}$/i.test(s)
IsHexAny(s, n) == Len(s) = n /\ \A i \in 1..Len(s) : s[i] \in HexAny

UpperLetters ==
    <<"A", "B", "C", "D", "E", "F", "G", "H", "I", "J", "K", "L", "M",
      "N", "O", "P", "Q", "R", "S", "T", "U", "V", "W", "X", "Y", "Z">>
LowerLetters ==
    <<"a", "b", "c", "d", "e", "f", "g", "h", "i", "j", "k", "l", "m",
      "n", "o", "p", "q", "r", "s", "t", "u", "v", "w", "x", "y", "z">>

LowerChar(c) ==
    IF \E i \in 1..Len(UpperLetters) : UpperLetters[i] = c
    THEN LowerLetters[CHOOSE i \in 1..Len(UpperLetters) : UpperLetters[i] = c]
    ELSE c

\* s.toLowerCase()
ToLowerCase(s) == [i \in 1..Len(s) |-> LowerChar(s[i])]

\* s.padStart(n, c)
PadStart(s, n, c) == IF Len(s) >= n THEN s ELSE Rep(c, n - Len(s)) \o s

\* s.slice(0, n)
Slice0(s, n) == SubSeq(s, 1, Min(n, Len(s)))

\* s.substring(n)
Substring(s, n) == SubSeq(s, n + 1, Len(s))

\* s.startsWith(p)
StartsWith(s, p) == Len(s) >= Len(p) /\ SubSeq(s, 1, Len(p)) = p

\* s.replace(/[^0-9a-f]/gi, '')
StripNonHex(s) == SelectSeq(s, LAMBDA c : c \in HexAny)

\* the index of the first occurrence of sep in s, 0 when there is none
IndexOf(s, sep) ==
    LET hits == {i \in 1..(Len(s) - Len(sep) + 1) : SubSeq(s, i, i + Len(sep) - 1) = sep}
    IN  IF hits = {} THEN 0 ELSE CHOOSE i \in hits : \A j \in hits : i <= j

RECURSIVE Split(_, _)
\* s.split(sep), sep non-empty
Split(s, sep) ==
    LET i == IndexOf(s, sep)
    IN  IF i = 0 THEN <<s>>
        ELSE <<SubSeq(s, 1, i - 1)>> \o Split(SubSeq(s, i + Len(sep), Len(s)), sep)

\* destructuring [a, b] = parts: a missing element is undefined
Part(parts, i) == IF i <= Len(parts) THEN parts[i] ELSE <<>>

RECURSIVE TrimStart(_)
TrimStart(s) == IF s # <<>> /\ Head(s) = " " THEN TrimStart(Tail(s)) ELSE s

RECURSIVE TrimEnd(_)
TrimEnd(s) ==
    IF s # <<>> /\ s[Len(s)] = " " THEN TrimEnd(SubSeq(s, 1, Len(s) - 1)) ELSE s

\* s.trim()
Trim(s) == TrimEnd(TrimStart(s))

\* s.replace(/^["']|["']$/g, '')
StripQuotes(s) ==
    LET a == IF s # <<>> /\ Head(s) \in {"\"", "'"} THEN Tail(s) ELSE s
    IN  IF a # <<>> /\ a[Len(a)] \in {"\"", "'"} THEN SubSeq(a, 1, Len(a) - 1) ELSE a

HexDigit(d) ==
    CASE d = 0 -> "0" [] d = 1 -> "1" [] d = 2 -> "2" [] d = 3 -> "3"
      [] d = 4 -> "4" [] d = 5 -> "5" [] d = 6 -> "6" [] d = 7 -> "7"
      [] d = 8 -> "8" [] d = 9 -> "9" [] d = 10 -> "a" [] d = 11 -> "b"
      [] d = 12 -> "c" [] d = 13 -> "d" [] d = 14 -> "e" [] d = 15 -> "f"

RECURSIVE ToString16(_)
\* n.toString(16), n a non-negative integer
ToString16(n) ==
    IF n < 16 THEN <<HexDigit(n)>> ELSE ToString16(n \div 16) \o <<HexDigit(n % 16)>>

\* the value of one hexadecimal digit
HexVal(c) == CHOOSE d \in 0..15 : HexDigit(d) = LowerChar(c)

RECURSIVE Join(_, _)
\* parts.join(sep)
Join(parts, sep) ==
    IF parts = <<>> THEN <<>>
    ELSE IF Len(parts) = 1 THEN parts[1]
    ELSE parts[1] \o sep \o Join(Tail(parts), sep)

-----------------------------------------------------------------------------
(* Environment: the random source and the clock *)

\* randomBytes(len / 2).toString('hex') on the k-th draw: len lowercase hex
\* characters, different for different k (k < 4096, len >= 4)
RandomHex(k, len) == <<"e">> \o PadStart(ToString16(k), 3, "0") \o Rep("0", len - 4)

\* Math.floor(Date.now() / 1000) at the clock readings of the model
Epochs == <<0, 1762300800>>

EpochSeconds(t) == Epochs[t]

\* epochSeconds.toString(16).padStart(8, '0').toLowerCase()
HexTimestamp(sec) == ToLowerCase(PadStart(ToString16(sec), 8, "0"))

-----------------------------------------------------------------------------
(* TraceContext: src/src/context/trace-context.ts *)

\* new TraceContext(): the field initialisers
NewTraceContext ==
    [version |-> <<"0", "0">>, traceId |-> <<>>, spanId |-> <<>>,
     traceFlags |-> <<"0", "1">>, traceState |-> <<>>]

\* A static factory returns [tc, drawn]: the identity and the values that
\* randomBytes returned during the call, in call order.  r is the number of
\* draws made before the call, t the clock reading.

\* a mutant of generateNew: the awsFormat argument is ignored
GenerateNewIgnoringFormat(awsFormat, r, t) ==
    [tc |-> [NewTraceContext EXCEPT !.traceId = RandomHex(r + 1, 32),
                                    !.spanId = RandomHex(r + 2, 16)],
     drawn |-> <<RandomHex(r + 1, 32), RandomHex(r + 2, 16)>>]

GenerateNew(awsFormat, r, t) ==
    IF awsFormat
    THEN LET traceIdHex == ToLowerCase(RandomHex(r + 1, 24))
         IN  [tc |-> [NewTraceContext EXCEPT
                        !.traceId = <<"1", "-">> \o HexTimestamp(EpochSeconds(t))
                                        \o <<"-">> \o traceIdHex,
                        !.spanId = RandomHex(r + 2, 16)],
              drawn |-> <<RandomHex(r + 1, 24), RandomHex(r + 2, 16)>>]
    ELSE [tc |-> [NewTraceContext EXCEPT !.traceId = RandomHex(r + 1, 32),
                                         !.spanId = RandomHex(r + 2, 16)],
          drawn |-> <<RandomHex(r + 1, 32), RandomHex(r + 2, 16)>>]

\* a mutant of parseTraceParent: the header's span id is kept as the current span
ParseTraceParentKeepingSpan(header, r, t) ==
    LET parts == Split(header, <<"-">>)
    IN  IF header = <<>> \/ Len(parts) # 4 THEN GenerateNew(FALSE, r, t)
        ELSE IF ~IsHexLower(parts[1], 2) \/ ~IsHexLower(parts[2], 32)
                \/ ~IsHexLower(parts[3], 16) \/ ~IsHexLower(parts[4], 2)
        THEN GenerateNew(FALSE, r, t)
        ELSE [tc |-> [NewTraceContext EXCEPT !.version = parts[1],
                                             !.traceId = parts[2],
                                             !.spanId = parts[3],
                                             !.traceFlags = parts[4]],
              drawn |-> <<>>]

ParseTraceParent(header, r, t) ==
    IF header = <<>> THEN GenerateNew(FALSE, r, t)
    ELSE LET parts == Split(header, <<"-">>)
         IN  IF Len(parts) # 4 THEN GenerateNew(FALSE, r, t)
             ELSE LET version == parts[1]
                      traceId == parts[2]
                      spanId == parts[3]
                      flags == parts[4]
                  IN  IF ~IsHexLower(version, 2) \/ ~IsHexLower(traceId, 32)
                         \/ ~IsHexLower(spanId, 16) \/ ~IsHexLower(flags, 2)
                      THEN GenerateNew(FALSE, r, t)
                      ELSE [tc |-> [NewTraceContext EXCEPT
                                      !.version = version,
                                      !.traceId = traceId,
                                      !.spanId = RandomHex(r + 1, 16),
                                      !.traceFlags = flags],
                            drawn |-> <<RandomHex(r + 1, 16)>>]

ParseCloudTrace(header, r, t) ==
    IF header = <<>> THEN GenerateNew(FALSE, r, t)
    ELSE LET halves == Split(header, <<";", "o", "=">>)
             traceSpan == Part(halves, 1)
             options == Part(halves, 2)
             traceId == Part(Split(traceSpan, <<"/">>), 1)
         IN  IF traceId = <<>> THEN GenerateNew(FALSE, r, t)
             ELSE [tc |-> [NewTraceContext EXCEPT
                             !.traceId = PadStart(traceId, 32, "0"),
                             !.spanId = RandomHex(r + 1, 16),
                             !.traceFlags = IF options = <<"0">>
                                            THEN <<"0", "0">> ELSE <<"0", "1">>],
                   drawn |-> <<RandomHex(r + 1, 16)>>]

\* the for loop of parseXAmznTraceId: the last Root=, Parent= and Sampled=
\* parts win; acc is [rootPart, parentPart, sampled]
RECURSIVE XAmznParts(_, _)
XAmznParts(parts, acc) ==
    IF parts = <<>> THEN acc
    ELSE LET trimmed == Trim(Head(parts))
             next ==
                 IF StartsWith(trimmed, <<"R", "o", "o", "t", "=">>)
                 THEN [acc EXCEPT !.rootPart = Substring(trimmed, 5)]
                 ELSE IF StartsWith(trimmed, <<"P", "a", "r", "e", "n", "t", "=">>)
                 THEN [acc EXCEPT !.parentPart = Substring(trimmed, 7)]
                 ELSE IF StartsWith(trimmed, <<"S", "a", "m", "p", "l", "e", "d", "=">>)
                 THEN [acc EXCEPT !.sampled = Substring(trimmed, 8)]
                 ELSE acc
         IN  XAmznParts(Tail(parts), next)

\* spanId.replace(/[^0-9a-f]/gi, '').slice(0, 16).padStart(16, '0').toLowerCase()
SpanIdHex(s) == ToLowerCase(PadStart(Slice0(StripNonHex(s), 16), 16, "0"))

ParseXAmznTraceId(header, r, t) ==
    IF header = <<>> THEN GenerateNew(TRUE, r, t)
    ELSE LET f == XAmznParts(Split(StripQuotes(header), <<";">>),
                             [rootPart |-> <<>>, parentPart |-> <<>>,
                              sampled |-> <<"1">>])
         IN  IF f.rootPart = <<>> THEN GenerateNew(TRUE, r, t)
             ELSE [tc |-> [NewTraceContext EXCEPT
                             !.traceId = f.rootPart,
                             !.spanId = IF f.parentPart # <<>>
                                        THEN SpanIdHex(f.parentPart)
                                        ELSE RandomHex(r + 1, 16),
                             !.traceFlags = IF f.sampled = <<"0">>
                                            THEN <<"0", "0">> ELSE <<"0", "1">>],
                   drawn |-> IF f.parentPart # <<>> THEN <<>>
                             ELSE <<RandomHex(r + 1, 16)>>]

\* Map.prototype.set on an insertion-ordered map kept as a sequence of pairs
MapSet(m, k, v) ==
    IF \E i \in 1..Len(m) : m[i][1] = k
    THEN [i \in 1..Len(m) |-> IF m[i][1] = k THEN <<k, v>> ELSE m[i]]
    ELSE Append(m, <<k, v>>)

RECURSIVE TraceStatePairs(_, _)
TraceStatePairs(pairs, m) ==
    IF pairs = <<>> THEN m
    ELSE LET kv == Split(Trim(Head(pairs)), <<"=">>)
             key == Part(kv, 1)
             value == Part(kv, 2)
         IN  TraceStatePairs(Tail(pairs),
                             IF key # <<>> /\ value # <<>> THEN MapSet(m, key, value)
                             ELSE m)

\* tc.parseTraceState(header): the identity afterwards
ParseTraceState(t, header) ==
    IF header = <<>> THEN t
    ELSE [t EXCEPT !.traceState = TraceStatePairs(Split(header, <<",">>), @)]

\* a mutant of toTraceParent: the version field is written as the constant 00
ToTraceParentFixedVersion(t) ==
    <<"0", "0">> \o <<"-">> \o t.traceId \o <<"-">> \o t.spanId \o <<"-">> \o t.traceFlags

ToTraceParent(t) ==
    t.version \o <<"-">> \o t.traceId \o <<"-">> \o t.spanId \o <<"-">> \o t.traceFlags

ToTraceState(t) ==
    Join([i \in 1..Len(t.traceState) |->
            t.traceState[i][1] \o <<"=">> \o t.traceState[i][2]], <<",">>)

ToCloudTrace(t) ==
    LET isTraced == t.traceFlags = <<"0", "1">>
    IN  t.traceId \o <<"/">> \o t.spanId \o <<";", "o", "=">>
            \o (IF isTraced THEN <<"1">> ELSE <<"0">>)

\* /^1-[0-9a-f]{8}-[0-9a-f]{24}$/i.test(s)
IsXRayIdAnyCase(s) ==
    /\ Len(s) = 35
    /\ s[1] = "1" /\ s[2] = "-" /\ s[11] = "-"
    /\ IsHexAny(SubSeq(s, 3, 10), 8)
    /\ IsHexAny(SubSeq(s, 12, 35), 24)

\* toXAmznTraceId at clock reading c
ToXAmznTraceId(t, c) ==
    LET sampled == IF t.traceFlags = <<"0", "1">> THEN <<"1">> ELSE <<"0">>
        tail == <<";", "P", "a", "r", "e", "n", "t", "=">> \o SpanIdHex(t.spanId)
                    \o <<";", "S", "a", "m", "p", "l", "e", "d", "=">> \o sampled
    IN  IF IsXRayIdAnyCase(t.traceId)
        THEN <<"R", "o", "o", "t", "=">> \o t.traceId \o tail
        ELSE LET traceIdHex ==
                     ToLowerCase(PadStart(Slice0(StripNonHex(t.traceId), 24), 24, "0"))
                 awsTraceId == <<"1", "-">> \o HexTimestamp(EpochSeconds(c))
                                   \o <<"-">> \o traceIdHex
             IN  <<"R", "o", "o", "t", "=">> \o awsTraceId \o tail

\* a mutant of createChildSpan: the child keeps the parent's span id
CreateChildSpanSameSpan(t, r) ==
    [tc |-> t, drawn |-> <<>>]

CreateChildSpan(t, r) ==
    [tc |-> [version |-> t.version, traceId |-> t.traceId,
             spanId |-> RandomHex(r + 1, 16), traceFlags |-> t.traceFlags,
             traceState |-> t.traceState],
     drawn |-> <<RandomHex(r + 1, 16)>>]

-----------------------------------------------------------------------------
(* Inputs: the header texts the model hands to the parse functions *)

\* 4bf92f3577b34da6a3ce929d0e0e4736
TraceA == <<"4", "b", "f", "9", "2", "f", "3", "5", "7", "7", "b", "3", "4", "d", "a", "6", "a", "3", "c", "e", "9", "2", "9", "d", "0", "e", "0", "e", "4", "7", "3", "6">>
\* 4BF92F3577B34DA6A3CE929D0E0E4736
TraceUpper == <<"4", "B", "F", "9", "2", "F", "3", "5", "7", "7", "B", "3", "4", "D", "A", "6", "A", "3", "C", "E", "9", "2", "9", "D", "0", "E", "0", "E", "4", "7", "3", "6">>
\* 32 characters, one of them not hexadecimal
TraceNonHex == <<"g">> \o Rep("1", 31)
\* 31 hex characters
TraceShort == Rep("2", 31)
\* 00f067aa0ba902b7
SpanA == <<"0", "0", "f", "0", "6", "7", "a", "a", "0", "b", "a", "9", "0", "2", "b", "7">>
\* 745315306bfc9ca3
SpanB == <<"7", "4", "5", "3", "1", "5", "3", "0", "6", "b", "f", "c", "9", "c", "a", "3">>
\* 1-69313ce7-190b8f6099d578eaf1f561bc
XRayA == <<"1", "-", "6", "9", "3", "1", "3", "c", "e", "7", "-", "1", "9", "0", "b", "8", "f", "6", "0", "9", "9", "d", "5", "7", "8", "e", "a", "f", "1", "f", "5", "6", "1", "b", "c">>

TraceParentHeaders ==
    {<<>>,
     <<"0", "0", "-">> \o TraceA \o <<"-", "0", "1">>,
     <<"0", "0", "-">> \o TraceA \o <<"-">> \o SpanA \o <<"-", "0", "1", "-", "x">>}
    \cup {v \o <<"-">> \o t \o <<"-">> \o sp \o <<"-">> \o f :
            v \in {<<"0", "0">>, <<"f", "f">>, <<"0", "G">>, <<"0">>},
            t \in {TraceA, TraceUpper, TraceNonHex, TraceShort},
            sp \in {SpanA, Rep("3", 15), <<"z">> \o Rep("3", 15)},
            f \in {<<"0", "0">>, <<"0", "1">>, <<"0", "2">>, <<"0", "3">>,
                   <<"f", "f">>, <<"0", "x">>}}

CloudTraceHeaders ==
    {t \o sp \o o :
        t \in {TraceA, TraceUpper, <<"a", "b", "c">>, <<"z", "z">>, <<>>,
               TraceA \o <<"9">>},
        sp \in {<<"/", "1", "2", "3">>, <<>>},
        o \in {<<";", "o", "=", "1">>, <<";", "o", "=", "0">>, <<>>,
               <<";", "o", "=", "2">>}}

XAmznRoots ==
    {<<>>,
     <<"R", "o", "o", "t", "=">> \o XRayA,
     <<"R", "o", "o", "t", "=">> \o <<"x", "y", "z">>,
     <<"R", "o", "o", "t", "=">> \o <<"1", "-", "z", "z", "-", "a", "b", "c">>,
     <<"R", "o", "o", "t", "=">> \o TraceA}

XAmznParents ==
    {<<>>,
     <<"P", "a", "r", "e", "n", "t", "=">> \o SpanB,
     <<"P", "a", "r", "e", "n", "t", "=">> \o <<"z", "z">>,
     <<"P", "a", "r", "e", "n", "t", "=">> \o <<"5">>}

XAmznSampled ==
    {<<>>,
     <<"S", "a", "m", "p", "l", "e", "d", "=", "1">>,
     <<"S", "a", "m", "p", "l", "e", "d", "=", "0">>}

\* the non-empty components joined by sep, optionally inside double quotes
XAmznHeader(root, parent, sampled, sep, quoted) ==
    LET text == Join(SelectSeq(<<root, parent, sampled>>, LAMBDA x : x # <<>>), sep)
    IN  IF quoted /\ text # <<>> THEN <<"\"">> \o text \o <<"\"">> ELSE text

XAmznHeaders ==
    {XAmznHeader(r, p, sm, sep, q) :
        r \in XAmznRoots, p \in XAmznParents, sm \in XAmznSampled,
        sep \in {<<";">>, <<";", " ">>}, q \in BOOLEAN}

-----------------------------------------------------------------------------
(* The initial values of the variables a specification does not use *)

NoWire == [kind |-> "none", s |-> <<>>]
NoOut == [call |-> "none"]
NoRecord == [call |-> "none"]

CodecIdle ==
    /\ op = "none" /\ hdr = <<>> /\ tc = NewTraceContext /\ drawn = <<>>
    /\ wire = NoWire

ContextsIdle == ctxs = <<>> /\ heap = <<>> /\ lastSet = <<>> /\ out = NoOut

FormatterIdle == rec = NoRecord /\ fmt = NoRecord

SpansIdle == spans = <<>> /\ maps = <<>>

NoBody == [t |-> "none", s |-> <<>>, keys |-> <<>>, kids |-> <<>>]
NoRun == [v |-> NoBody, calls |-> 0]

SanitizerIdle == body = NoBody /\ clean = NoRun /\ again = NoRun

NoShape == [call |-> "none"]
NoEnv == [LOG_TYPE |-> "undefined", PROJECT_ID |-> <<>>]

LogTypeIdle ==
    /\ globalLogType = "undefined" /\ env = NoEnv
    /\ services = <<>> /\ shaped = NoShape

NoCall == [call |-> "none"]

SerializersIdle == given = NoCall /\ serialized = NoCall

NoModule == [kind |-> "none"]
NoService == [logger |-> "none"]
NoApp == [envRegister |-> NoBody, module |-> NoModule, service |-> NoService]

ModuleIdle == app = NoApp /\ emitted = <<>>

NoGraph == <<>>

CyclesIdle == objs = NoGraph /\ frames = <<>> /\ ret = NoBody

InterceptorIdle == http = <<>> /\ logs = <<>>

-----------------------------------------------------------------------------
(* The codec: a parse function builds tc, a serialiser writes it out *)

Tick ==
    /\ now < Len(Epochs)
    /\ now' = now + 1
    /\ UNCHANGED <<rng, op, hdr, tc, drawn, wire, ctxs, heap, lastSet, out, rec, fmt, spans, maps, body, clean, again, globalLogType, env, services, shaped, given, serialized, app, emitted, objs, frames, ret, http, logs>>

\* the state after a static factory returned res for header h; one run of the
\* codec parses one header
Parsed(name, h, res) ==
    /\ op = "none"
    /\ op' = name
    /\ hdr' = h
    /\ tc' = res.tc
    /\ drawn' = res.drawn
    /\ rng' = rng + Len(res.drawn)
    /\ wire' = NoWire
    /\ UNCHANGED <<now, ctxs, heap, lastSet, out, rec, fmt, spans, maps, body, clean, again, globalLogType, env, services, shaped, given, serialized, app, emitted, objs, frames, ret, http, logs>>

CallParseTraceParent ==
    \E h \in TraceParentHeaders :
        Parsed("parseTraceParent", h, ParseTraceParent(h, rng, now))

CallParseCloudTrace ==
    \E h \in CloudTraceHeaders :
        Parsed("parseCloudTrace", h, ParseCloudTrace(h, rng, now))

CallParseXAmznTraceId ==
    \E h \in XAmznHeaders :
        Parsed("parseXAmznTraceId", h, ParseXAmznTraceId(h, rng, now))

Serialised(kind, s) ==
    /\ op # "none"
    /\ wire' = [kind |-> kind, s |-> s]
    /\ UNCHANGED <<rng, now, op, hdr, tc, drawn, ctxs, heap, lastSet, out, rec, fmt, spans, maps, body, clean, again, globalLogType, env, services, shaped, given, serialized, app, emitted, objs, frames, ret, http, logs>>

CallToTraceParent == Serialised("traceparent", ToTraceParent(tc))

CallToCloudTrace == Serialised("x-cloud-trace-context", ToCloudTrace(tc))

CallToXAmznTraceId == Serialised("x-amzn-trace-id", ToXAmznTraceId(tc, now))

InitCodec ==
    /\ rng = 0
    /\ now \in 1..Len(Epochs)
    /\ CodecIdle /\ ContextsIdle /\ FormatterIdle /\ SpansIdle /\ SanitizerIdle /\ LogTypeIdle /\ SerializersIdle /\ ModuleIdle /\ CyclesIdle /\ InterceptorIdle

NextCodec ==
    \/ Tick
    \/ CallParseTraceParent
    \/ CallParseCloudTrace
    \/ CallParseXAmznTraceId
    \/ CallToTraceParent
    \/ CallToCloudTrace
    \/ CallToXAmznTraceId

SpecCodec == InitCodec /\ [][NextCodec]_vars

-----------------------------------------------------------------------------
(* RequestContext: src/unnamed/part_015 (src/context/request-context.ts) *)

\* req.headers['x-request-id'] keeps its JavaScript type: undefined, a string,
\* or an array of strings; the other headers are texts, '' when absent.
XRequestIds ==
    {[kind |-> "undefined", s |-> <<>>],
     [kind |-> "string", s |-> <<>>],
     [kind |-> "string", s |-> <<"a", "b", "c", "d", "e", "f", "1", "2">>],
     [kind |-> "string", s |-> <<"A", "B", "C", "D", "E", "F", "1", "2">>],
     [kind |-> "string", s |-> <<"A", "b", "C", "d", "1", "2", "3", "4">>],
     [kind |-> "string", s |-> <<"a", "b", "c", "d", "e", "f", "1">>],
     [kind |-> "string", s |-> <<"a", "b", "c", "d", "e", "f", "1", "2", "3">>],
     [kind |-> "string", s |-> <<"a", "b", "c", "d", "e", "f", "g", "1">>],
     [kind |-> "array", s |-> <<"a", "b", "c", "d", "e", "f", "1", "2">>]}

ValidXAmzn == XAmznHeader(<<"R", "o", "o", "t", "=">> \o XRayA,
                          <<"P", "a", "r", "e", "n", "t", "=">> \o SpanB,
                          <<"S", "a", "m", "p", "l", "e", "d", "=", "0">>,
                          <<";">>, FALSE)
ValidCloud == <<"a", "b", "c", "/", "1", "2", "3", ";", "o", "=", "1">>
ValidTraceParent == <<"0", "0", "-">> \o TraceA \o <<"-">> \o SpanA \o <<"-", "0", "1">>
TraceStateText == <<"k", "=", "v", ",", " ", "b", "a", "d", ",", "a", "=", "1">>

Requests ==
    [xRequestId : XRequestIds,
     xAmzn : {<<>>, ValidXAmzn, <<"R", "o", "o", "t", "=", "x", "y", "z">>},
     xCloud : {<<>>, ValidCloud, <<"z", "z">>},
     traceparent : {<<>>, ValidTraceParent, <<"0", "0", "-", "a", "b", "c">>},
     tracestate : {<<>>, TraceStateText}]

NoRequest ==
    [xRequestId |-> [kind |-> "undefined", s |-> <<>>], xAmzn |-> <<>>,
     xCloud |-> <<>>, traceparent |-> <<>>, tracestate |-> <<>>]

\* the requests whose contexts the lifecycle specification follows
LifecycleRequests ==
    {NoRequest,
     [NoRequest EXCEPT !.xAmzn = ValidXAmzn, !.xCloud = ValidCloud,
                       !.tracestate = TraceStateText],
     [NoRequest EXCEPT !.traceparent = ValidTraceParent,
                       !.xRequestId = [kind |-> "string", s |-> <<"A", "B", "C", "D", "E", "F", "1", "2">>]]}

LogTypes == {"gcp", "aws"}

MetaKeys == {"user"}
MetaValues == {"v1", "v2"}

HeaderNames ==
    {"x-request-id", "traceparent", "tracestate", "x-cloud-trace-context",
     "x-amzn-trace-id"}

NoHeaders == [h \in HeaderNames |-> <<>>]

\* the objects passed to addTraceHeaders: none (the default {}) and one that
\* already carries stale propagation headers
BaseHeaders ==
    {NoHeaders,
     [h \in HeaderNames |-> <<"s", "t", "a", "l", "e">>]}

\* a mutant of the request id rule: the pattern is matched case-sensitively
RequestIdCaseSensitive(x, r) ==
    IF x.kind = "string" /\ x.s # <<>> /\ Len(x.s) = 8 /\ IsHexLower(x.s, 8)
    THEN [id |-> ToLowerCase(x.s), drawn |-> <<>>]
    ELSE [id |-> Slice0(RandomHex(r + 1, 32), 8), drawn |-> <<RandomHex(r + 1, 32)>>]

\* create, lines 26-32: the request id and the value drawn for it
RequestIdOf(x, r) ==
    IF x.kind = "string" /\ x.s # <<>> /\ Len(x.s) = 8 /\ IsHexAny(x.s, 8)
    THEN [id |-> ToLowerCase(x.s), drawn |-> <<>>]
    ELSE [id |-> Slice0(RandomHex(r + 1, 32), 8), drawn |-> <<RandomHex(r + 1, 32)>>]

\* a mutant of createTraceContext: AWS mode without x-amzn-trace-id falls
\* through to the other headers
CreateTraceContextFallingThrough(req, logType, r, t) ==
    LET res == IF logType = "aws" /\ req.xAmzn # <<>>
               THEN ParseXAmznTraceId(req.xAmzn, r, t)
               ELSE IF req.xCloud # <<>>
               THEN ParseCloudTrace(req.xCloud, r, t)
               ELSE ParseTraceParent(req.traceparent, r, t)
    IN  [tc |-> ParseTraceState(res.tc, req.tracestate), drawn |-> res.drawn]

CreateTraceContext(req, logType, r, t) ==
    LET res == IF logType = "aws"
               THEN IF req.xAmzn # <<>>
                    THEN ParseXAmznTraceId(req.xAmzn, r, t)
                    ELSE GenerateNew(TRUE, r, t)
               ELSE IF req.xCloud # <<>>
               THEN ParseCloudTrace(req.xCloud, r, t)
               ELSE IF req.traceparent # <<>>
               THEN ParseTraceParent(req.traceparent, r, t)
               ELSE GenerateNew(FALSE, r, t)
    IN  [tc |-> ParseTraceState(res.tc, req.tracestate), drawn |-> res.drawn]

\* new Map()
EmptyMap == [k \in MetaKeys |-> "undefined"]

\* RequestContext.create(req, logType).  A context is
\*   requestId, traceContext, logType, startTime: the private fields;
\*   metadata: the reference of its Map in heap;
\*   parent, req, drawn: history (0 and the request for a root, the values
\*   randomBytes returned while the context was built).
\* process.hrtime() is read off the same clock as Date.now().
Create(req, logType) ==
    LET rid == RequestIdOf(req.xRequestId, rng)
        tr == CreateTraceContext(req, logType, rng + Len(rid.drawn), now)
    IN  /\ ctxs = <<>>
        /\ ctxs' = <<[requestId |-> rid.id, traceContext |-> tr.tc,
                      logType |-> logType, startTime |-> now,
                      metadata |-> Len(heap) + 1,
                      parent |-> 0, req |-> req, drawn |-> rid.drawn \o tr.drawn]>>
        /\ heap' = Append(heap, EmptyMap)
        /\ lastSet' = Append(lastSet, EmptyMap)
        /\ rng' = rng + Len(rid.drawn) + Len(tr.drawn)
        /\ out' = [call |-> "create", ctx |-> 1]
        /\ UNCHANGED <<now, op, hdr, tc, drawn, wire, rec, fmt, spans, maps, body, clean, again, globalLogType, env, services, shaped, given, serialized, app, emitted, objs, frames, ret, http, logs>>

\* a mutant of createChildContext: the child is given the parent's Map
ChildMetadataShared(p) == ctxs[p].metadata

\* createChildContext, line 126: new RequestContext() makes a Map of its own
ChildMetadata(p) == Len(heap) + 1

CreateChildContext(p) ==
    LET child == CreateChildSpan(ctxs[p].traceContext, rng)
        ref == ChildMetadata(p)
    IN  /\ Len(ctxs) < MaxCtx
        /\ ctxs' = Append(ctxs,
                     [requestId |-> ctxs[p].requestId, traceContext |-> child.tc,
                      logType |-> ctxs[p].logType, startTime |-> now,
                      metadata |-> ref,
                      parent |-> p, req |-> NoRequest, drawn |-> child.drawn])
        /\ heap' = Append(heap, EmptyMap)
        /\ lastSet' = Append(lastSet, EmptyMap)
        /\ rng' = rng + Len(child.drawn)
        /\ out' = [call |-> "createChildContext", ctx |-> Len(ctxs) + 1]
        /\ UNCHANGED <<now, op, hdr, tc, drawn, wire, rec, fmt, spans, maps, body, clean, again, globalLogType, env, services, shaped, given, serialized, app, emitted, objs, frames, ret, http, logs>>

SetMetadata(c, k, v) ==
    /\ heap' = [heap EXCEPT ![ctxs[c].metadata][k] = v]
    /\ lastSet' = [lastSet EXCEPT ![c][k] = v]
    /\ out' = [call |-> "setMetadata"]
    /\ UNCHANGED <<rng, now, op, hdr, tc, drawn, wire, ctxs, rec, fmt, spans, maps, body, clean, again, globalLogType, env, services, shaped, given, serialized, app, emitted, objs, frames, ret, http, logs>>

\* the value getMetadata(k) returns on context c
MetadataOf(c, k) == heap[ctxs[c].metadata][k]

GetMetadata(c, k) ==
    /\ out' = [call |-> "getMetadata", ctx |-> c, key |-> k, value |-> MetadataOf(c, k)]
    /\ UNCHANGED <<rng, now, op, hdr, tc, drawn, wire, ctxs, heap, lastSet, rec, fmt, spans, maps, body, clean, again, globalLogType, env, services, shaped, given, serialized, app, emitted, objs, frames, ret, http, logs>>

\* a mutant of addTraceHeaders: traceparent and tracestate are written in
\* either vendor mode, as an earlier revision did
TraceHeadersAlwaysW3C(c, headers) ==
    LET t == ctxs[c].traceContext
        w3c == [headers EXCEPT
                  !["traceparent"] = ToTraceParent(t),
                  !["tracestate"] = IF ToTraceState(t) # <<>>
                                    THEN ToTraceState(t) ELSE @]
        traced ==
            IF ctxs[c].logType = "aws"
            THEN [w3c EXCEPT !["x-amzn-trace-id"] = ToXAmznTraceId(t, now)]
            ELSE [w3c EXCEPT !["x-cloud-trace-context"] = ToCloudTrace(t)]
    IN  [traced EXCEPT !["x-request-id"] = ctxs[c].requestId]

\* the object addTraceHeaders(headers) returns; _traceContext is never null
\* in a context built by create or createChildContext
TraceHeaders(c, headers) ==
    LET t == ctxs[c].traceContext
        traced ==
            IF ctxs[c].logType = "aws"
            THEN [headers EXCEPT !["x-amzn-trace-id"] = ToXAmznTraceId(t, now)]
            ELSE [headers EXCEPT
                    !["traceparent"] = ToTraceParent(t),
                    !["tracestate"] = IF ToTraceState(t) # <<>>
                                      THEN ToTraceState(t) ELSE @,
                    !["x-cloud-trace-context"] = ToCloudTrace(t)]
    IN  [traced EXCEPT !["x-request-id"] = ctxs[c].requestId]

AddTraceHeaders(c, headers) ==
    /\ out' = [call |-> "addTraceHeaders", ctx |-> c, base |-> headers,
               headers |-> TraceHeaders(c, headers)]
    /\ UNCHANGED <<rng, now, op, hdr, tc, drawn, wire, ctxs, heap, lastSet, rec, fmt, spans, maps, body, clean, again, globalLogType, env, services, shaped, given, serialized, app, emitted, objs, frames, ret, http, logs>>

\* getElapsedMs(): the clock readings passed since the context was built
GetElapsedMs(c) ==
    /\ out' = [call |-> "getElapsedMs", ctx |-> c, ticks |-> now - ctxs[c].startTime]
    /\ UNCHANGED <<rng, now, op, hdr, tc, drawn, wire, ctxs, heap, lastSet, rec, fmt, spans, maps, body, clean, again, globalLogType, env, services, shaped, given, serialized, app, emitted, objs, frames, ret, http, logs>>

InitContexts ==
    /\ rng = 0
    /\ now \in 1..Len(Epochs)
    /\ CodecIdle /\ ContextsIdle /\ FormatterIdle /\ SpansIdle /\ SanitizerIdle /\ LogTypeIdle /\ SerializersIdle /\ ModuleIdle /\ CyclesIdle /\ InterceptorIdle

\* RequestContext.create on every request of the pool, and what the new
\* context hands to the next hop
NextCreate ==
    \/ \E req \in Requests, logType \in LogTypes : Create(req, logType)
    \/ \E c \in 1..Len(ctxs), b \in BaseHeaders : AddTraceHeaders(c, b)

SpecCreate == InitContexts /\ [][NextCreate]_vars

\* the life of one request context and the contexts forked from it
NextContexts ==
    \/ Tick
    \/ \E req \in LifecycleRequests, logType \in LogTypes : Create(req, logType)
    \/ \E p \in 1..Len(ctxs) : CreateChildContext(p)
    \/ \E c \in 1..Len(ctxs), k \in MetaKeys, v \in MetaValues : SetMetadata(c, k, v)
    \/ \E c \in 1..Len(ctxs), k \in MetaKeys : GetMetadata(c, k)
    \/ \E c \in 1..Len(ctxs) : AddTraceHeaders(c, NoHeaders)
    \/ \E c \in 1..Len(ctxs) : GetElapsedMs(c)

SpecContexts == InitContexts /\ [][NextContexts]_vars

-----------------------------------------------------------------------------
(* The AWS log shape: src/unnamed/part_010 (formatters/aws) and                *)
(* src/src/formatters/shared/trace-utils.ts                                    *)

\* A log record of the model carries the keys level, timestamp, time, service,
\* traceId and spanId.  level and service are texts ("undefined" and "" when
\* absent); timestamp and time are ISO-8601 texts, kept as the clock reading
\* they denote (0 when absent); traceId and spanId are texts ('' when absent).
LogRecords ==
    [level : {"undefined", "30"},
     timestamp : 0..Len(Epochs),
     time : 0..Len(Epochs),
     service : {"", "svc"},
     traceId : {<<>>, XRayA, ToLowerCase(TraceUpper), TraceUpper,
                <<"R", "o", "o", "t", "=">> \o XRayA,
                <<"a", "b", "c", "1", "2", "3">>},
     spanId : {<<>>, SpanA}]

\* convertToAwsXRayTraceId(traceId, timestamp) at clock reading c; timestamp 0
\* is a missing argument, the result <<>> is null
ConvertToAwsXRayTraceId(traceId, timestamp, c) ==
    IF traceId = <<>> THEN <<>>
    ELSE IF StartsWith(traceId, <<"R", "o", "o", "t", "=">>) THEN traceId
    ELSE LET epochSeconds == IF timestamp # 0 THEN EpochSeconds(timestamp)
                             ELSE EpochSeconds(c)
             traceIdHex ==
                 ToLowerCase(PadStart(Slice0(StripNonHex(traceId), 24), 24, "0"))
         IN  <<"R", "o", "o", "t", "=", "1", "-">> \o HexTimestamp(epochSeconds)
                 \o <<"-">> \o traceIdHex

\* generateXAmznTraceId(traceId, spanId, sampled) at clock reading c
GenerateXAmznTraceId(traceId, spanId, sampled, c) ==
    IF traceId = <<>> THEN <<>>
    ELSE LET awsTraceId == ConvertToAwsXRayTraceId(traceId, 0, c)
             parent == IF spanId # <<>>
                       THEN <<<<"P", "a", "r", "e", "n", "t", "=">> \o spanId>>
                       ELSE <<>>
             flag == <<"S", "a", "m", "p", "l", "e", "d", "=">>
                        \o (IF sampled THEN <<"1">> ELSE <<"0">>)
         IN  IF awsTraceId = <<>> THEN <<>>
             ELSE Join(<<awsTraceId>> \o parent \o <<flag>>, <<";">>)

\* formatAwsLog(object) at clock reading c.  hasTraceId tells whether the
\* result has the keys traceId and x-amzn-trace-id, hasSpanId whether it has
\* spanId; line 31 hands result.timestamp, a non-empty text, to the parameter
\* sampled.
FormatAwsLog(object, c) ==
    LET timestamp == IF object.timestamp # 0 THEN object.timestamp
                     ELSE IF object.time # 0 THEN object.time
                     ELSE c
    IN  [call |-> "formatAwsLog",
         level |-> object.level,
         timestamp |-> timestamp,
         service |-> object.service,
         hasTraceId |-> object.traceId # <<>>,
         traceId |-> ConvertToAwsXRayTraceId(object.traceId, timestamp, c),
         xAmznTraceId |-> GenerateXAmznTraceId(object.traceId, object.spanId,
                                               timestamp # 0, c),
         hasSpanId |-> object.spanId # <<>>,
         spanId |-> object.spanId,
         aws |-> [cloudwatch |-> [logGroup |-> "/aws/service/gateway-manager",
                                  logStream |-> "instance-1"]]]

\* one run of the formatter shapes one record
CallFormatAwsLog ==
    \E object \in LogRecords :
        /\ rec = NoRecord
        /\ rec' = object
        /\ fmt' = FormatAwsLog(object, now)
        /\ UNCHANGED <<rng, now, op, hdr, tc, drawn, wire, ctxs, heap, lastSet, out, spans, maps, body, clean, again, globalLogType, env, services, shaped, given, serialized, app, emitted, objs, frames, ret, http, logs>>

InitFormatter ==
    /\ rng = 0
    /\ now \in 1..Len(Epochs)
    /\ CodecIdle /\ ContextsIdle /\ FormatterIdle /\ SpansIdle /\ SanitizerIdle /\ LogTypeIdle /\ SerializersIdle /\ ModuleIdle /\ CyclesIdle /\ InterceptorIdle

NextFormatter ==
    \/ Tick
    \/ CallFormatAwsLog

SpecFormatter == InitFormatter /\ [][NextFormatter]_vars

-----------------------------------------------------------------------------
(* Shapes of identifiers and headers, as the specification words them *)

Range(q) == {q[i] : i \in 1..Len(q)}

EndsWith(s, p) == Len(s) >= Len(p) /\ SubSeq(s, Len(s) - Len(p) + 1, Len(s)) = p

\* 1-{8 lowercase hex}-{24 lowercase hex}
IsXRayIdLower(s) ==
    /\ Len(s) = 35
    /\ s[1] = "1" /\ s[2] = "-" /\ s[11] = "-"
    /\ IsHexLower(SubSeq(s, 3, 10), 8)
    /\ IsHexLower(SubSeq(s, 12, 35), 24)

\* {2 hex}-{32 hex}-{16 hex}-{2 hex}, lowercase as W3C Trace Context writes it
ValidTraceParentHeader(h) ==
    /\ Len(h) = 55
    /\ h[3] = "-" /\ h[36] = "-" /\ h[53] = "-"
    /\ IsHexLower(SubSeq(h, 1, 2), 2)
    /\ IsHexLower(SubSeq(h, 4, 35), 32)
    /\ IsHexLower(SubSeq(h, 37, 52), 16)
    /\ IsHexLower(SubSeq(h, 54, 55), 2)

\* {1 to 32 hex}/{decimal span}, optionally followed by ;o=0 or ;o=1
ValidCloudTraceHeader(h) ==
    \E n \in 1..32 :
        /\ Len(h) > n + 1
        /\ IsHexLower(SubSeq(h, 1, n), n)
        /\ h[n + 1] = "/"
        /\ \E m \in (n + 2)..Len(h) :
              /\ \A i \in (n + 2)..m : h[i] \in Digits
              /\ SubSeq(h, m + 1, Len(h)) \in
                    {<<>>, <<";", "o", "=", "0">>, <<";", "o", "=", "1">>}

\* the header has a component Root=1-{8 hex}-{24 hex}
ValidXAmznHeader(h) ==
    LET parts == Split(StripQuotes(h), <<";">>)
    IN  \E i \in 1..Len(parts) :
            /\ StartsWith(Trim(parts[i]), <<"R", "o", "o", "t", "=">>)
            /\ IsXRayIdLower(Substring(Trim(parts[i]), 5))

Malformed(name, h) ==
    CASE name = "parseTraceParent" -> ~ValidTraceParentHeader(h)
      [] name = "parseCloudTrace" -> ~ValidCloudTraceHeader(h)
      [] name = "parseXAmznTraceId" -> ~ValidXAmznHeader(h)
      [] OTHER -> FALSE

-----------------------------------------------------------------------------
(* Claims about the codec, checked under SpecCodec *)

\* C1: for every missing, empty or malformed header each of the three parse
\* functions returns an identity of valid shape: the trace id is 32 lowercase
\* hex characters (or 1-{8 hex}-{24 hex} after parseXAmznTraceId) and the span
\* id is 16 lowercase hex characters.
C1_MalformedHeaderGivesValidShape ==
    (op # "none" /\ Malformed(op, hdr)) =>
        /\ IsHexLower(tc.spanId, 16)
        /\ \/ IsHexLower(tc.traceId, 32)
           \/ op = "parseXAmznTraceId" /\ IsXRayIdLower(tc.traceId)

\* C2 as stated: whatever parse function derived the identity from a header,
\* its span id is a value randomBytes returned during that call.
C2_SpanIdAlwaysFresh ==
    op # "none" => tc.spanId \in Range(drawn)

\* the text of the last Parent= component of an x-amzn-trace-id header
XAmznParentText(h) ==
    XAmznParts(Split(StripQuotes(h), <<";">>),
               [rootPart |-> <<>>, parentPart |-> <<>>, sampled |-> <<"1">>]).parentPart

\* C2 amended: after parseTraceParent and parseCloudTrace the span id is a
\* value randomBytes returned during the call, never text of the header; after
\* parseXAmznTraceId it is such a value, or else the header has a Parent=
\* component and the span id is that component reduced to its hex digits,
\* cut or zero-padded to 16 characters and lower-cased, with no draw made.
C2_SpanIdFreshExceptXRayParent ==
    /\ op \in {"parseTraceParent", "parseCloudTrace"} =>
          /\ tc.spanId \in Range(drawn)
          /\ IsHexLower(tc.spanId, 16)
    /\ op = "parseXAmznTraceId" =>
          \/ tc.spanId \in Range(drawn)
          \/ /\ XAmznParentText(hdr) # <<>>
             /\ tc.spanId = SpanIdHex(XAmznParentText(hdr))
             /\ drawn = <<>>

\* C2 witness: an X-Ray header with a Parent= component was parsed and the
\* identity's span id is the header's
C2_Witness ==
    /\ op = "parseXAmznTraceId"
    /\ tc.spanId = SpanB
    /\ drawn = <<>>

\* the sampled bit (0x01) of a valid traceparent's flags byte, as 0 or 1
SampledBit(h) == HexVal(h[55]) % 2

\* C5: for a valid traceparent the bit 0x01 of the flags byte decides the
\* output: toCloudTrace ends in o=1 and toXAmznTraceId in Sampled=1 when the
\* bit is set, in o=0 and Sampled=0 when it is clear.
C5_SampledBitDecidesOutput ==
    (op = "parseTraceParent" /\ ValidTraceParentHeader(hdr)) =>
        /\ wire.kind = "x-cloud-trace-context" =>
              EndsWith(wire.s, <<";", "o", "=">> \o ToString16(SampledBit(hdr)))
        /\ wire.kind = "x-amzn-trace-id" =>
              EndsWith(wire.s, <<";", "S", "a", "m", "p", "l", "e", "d", "=">>
                                   \o ToString16(SampledBit(hdr)))

\* C6: for a valid traceparent h, toTraceParent(parseTraceParent(h)) has h's
\* version, trace id and flags, and a span id of 16 lowercase hex characters
\* that randomBytes returned during the parse.
C6_TraceParentRoundTrip ==
    (op = "parseTraceParent" /\ ValidTraceParentHeader(hdr)
                             /\ wire.kind = "traceparent") =>
        /\ Len(wire.s) = 55
        /\ SubSeq(wire.s, 1, 36) = SubSeq(hdr, 1, 36)
        /\ SubSeq(wire.s, 53, 55) = SubSeq(hdr, 53, 55)
        /\ IsHexLower(SubSeq(wire.s, 37, 52), 16)
        /\ SubSeq(wire.s, 37, 52) \in Range(drawn)

\* C6 witness: a valid header with version ff and flags 03 went through the
\* round trip
C6_Witness ==
    /\ op = "parseTraceParent"
    /\ hdr = <<"f", "f", "-">> \o TraceA \o <<"-">> \o SpanA \o <<"-", "0", "3">>
    /\ wire.kind = "traceparent"

-----------------------------------------------------------------------------
(* Claims about RequestContext.create, checked under SpecCreate *)

\* the text of the last Root= component of an x-amzn-trace-id header
XAmznRootText(h) ==
    XAmznParts(Split(StripQuotes(h), <<";">>),
               [rootPart |-> <<>>, parentPart |-> <<>>, sampled |-> <<"1">>]).rootPart

\* the trace id a valid x-cloud-trace-context header names, left-padded to 32
CloudTraceIdOf(h) == PadStart(SubSeq(h, 1, IndexOf(h, <<"/">>) - 1), 32, "0")

\* the trace id was generated: it is, or ends in, a value randomBytes returned
\* while the context was built
FreshTraceId(c) ==
    \E v \in Range(c.drawn) : EndsWith(c.traceContext.traceId, v)

\* C3 as stated: the vendor header when present (x-amzn-trace-id in AWS mode,
\* x-cloud-trace-context otherwise), else a present traceparent, else a fresh
\* identity; in AWS mode with no x-amzn-trace-id and a valid traceparent the
\* trace id is the traceparent's.
C3_VendorThenTraceParentThenNew ==
    ctxs # <<>> =>
        LET c == ctxs[1]
            q == c.req
            id == c.traceContext.traceId
            vendor == IF c.logType = "aws" THEN q.xAmzn ELSE q.xCloud
        IN  /\ (c.logType = "aws" /\ ValidXAmznHeader(q.xAmzn)) =>
                  id = XAmznRootText(q.xAmzn)
            /\ (c.logType = "gcp" /\ ValidCloudTraceHeader(q.xCloud)) =>
                  id = CloudTraceIdOf(q.xCloud)
            /\ (vendor = <<>> /\ ValidTraceParentHeader(q.traceparent)) =>
                  id = SubSeq(q.traceparent, 4, 35)
            /\ (vendor = <<>> /\ q.traceparent = <<>>) => FreshTraceId(c)

\* C3 amended: in AWS mode the identity comes from x-amzn-trace-id when that
\* header is present and is otherwise freshly generated in X-Ray form, whatever
\* traceparent and x-cloud-trace-context carry; in GCP mode it comes from
\* x-cloud-trace-context when present, else from a present traceparent, else
\* it is freshly generated.
C3_PriorityPerVendorMode ==
    ctxs # <<>> =>
        LET c == ctxs[1]
            q == c.req
            id == c.traceContext.traceId
        IN  /\ (c.logType = "aws" /\ ValidXAmznHeader(q.xAmzn)) =>
                  id = XAmznRootText(q.xAmzn)
            /\ (c.logType = "aws" /\ q.xAmzn = <<>>) =>
                  IsXRayIdLower(id) /\ FreshTraceId(c)
            /\ (c.logType = "gcp" /\ ValidCloudTraceHeader(q.xCloud)) =>
                  id = CloudTraceIdOf(q.xCloud)
            /\ (c.logType = "gcp" /\ q.xCloud = <<>>
                    /\ ValidTraceParentHeader(q.traceparent)) =>
                  id = SubSeq(q.traceparent, 4, 35)
            /\ (c.logType = "gcp" /\ q.xCloud = <<>> /\ q.traceparent = <<>>) =>
                  IsHexLower(id, 32) /\ FreshTraceId(c)

\* C3 witness: a context created in AWS mode from a request with a valid
\* traceparent and no x-amzn-trace-id
C3_Witness ==
    /\ ctxs # <<>>
    /\ ctxs[1].logType = "aws"
    /\ ctxs[1].req.xAmzn = <<>>
    /\ ctxs[1].req.traceparent = ValidTraceParent
    /\ ctxs[1].traceContext.traceId # TraceA

\* the request id was generated: the first 8 characters of a 32-character
\* value randomBytes returned while the context was built
FreshRequestId(c) ==
    \E v \in Range(c.drawn) : Len(v) = 32 /\ c.requestId = SubSeq(v, 1, 8)

-----------------------------------------------------------------------------
(* Claims about the life of a context, checked under SpecContexts *)

\* C8: every context forked, directly or not, from a created context has the
\* root's requestId and trace id, and a span id different from its parent's.
C8_ChildKeepsIdsNewSpan ==
    \A c \in 1..Len(ctxs) :
        ctxs[c].parent # 0 =>
            /\ ctxs[c].requestId = ctxs[1].requestId
            /\ ctxs[c].traceContext.traceId = ctxs[1].traceContext.traceId
            /\ ctxs[c].traceContext.spanId # ctxs[ctxs[c].parent].traceContext.spanId

\* C8 witness: a child of a child exists
C8_Witness ==
    /\ Len(ctxs) >= 3
    /\ ctxs[2].parent = 1
    /\ ctxs[3].parent = 2

\* C9: getMetadata(k) on a context returns what was last set for k on that
\* same context (undefined if nothing was), whatever was set on its parent,
\* children and siblings.
C9_MetadataIndependent ==
    \A c \in 1..Len(ctxs) : \A k \in MetaKeys : MetadataOf(c, k) = lastSet[c][k]

\* C9 witness: a parent and two siblings hold three different values for a key
C9_Witness ==
    /\ Len(ctxs) >= 3
    /\ ctxs[2].parent = 1
    /\ ctxs[3].parent = 1
    /\ MetadataOf(1, "user") = "v1"
    /\ MetadataOf(2, "user") = "v2"
    /\ MetadataOf(3, "user") = "undefined"

\* requestId, traceId and spanId of every existing context are the same after
\* a step as before it
IdsUnchanged ==
    \A c \in 1..Len(ctxs) :
        /\ c <= Len(ctxs')
        /\ ctxs'[c].requestId = ctxs[c].requestId
        /\ ctxs'[c].traceContext.traceId = ctxs[c].traceContext.traceId
        /\ ctxs'[c].traceContext.spanId = ctxs[c].traceContext.spanId

\* C10: no call changes the requestId, traceId or spanId of an existing
\* context, and a context created in AWS mode without x-amzn-trace-id has a
\* trace id of the form 1-{8 lowercase hex}-{24 lowercase hex} all its life.
C10_IdsStableForLife ==
    /\ [][IdsUnchanged]_vars
    /\ [](\A c \in 1..Len(ctxs) :
            (ctxs[c].parent = 0 /\ ctxs[c].logType = "aws" /\ ctxs[c].req.xAmzn = <<>>)
                => IsXRayIdLower(ctxs[c].traceContext.traceId))

\* C10 witness: a context created in AWS mode without x-amzn-trace-id has been
\* forked and, after the clock moved on, asked for its outbound headers
C10_Witness ==
    /\ Len(ctxs) >= 2
    /\ ctxs[1].logType = "aws"
    /\ ctxs[1].req.xAmzn = <<>>
    /\ out.call = "addTraceHeaders"
    /\ out.ctx = 1
    /\ now > ctxs[1].startTime

-----------------------------------------------------------------------------
(* Claims about the AWS log shape, checked under SpecFormatter *)

\* C7: in the AWS shape the output traceId has the form 1-{8 hex}-{24 hex}; a
\* record trace id that already has that form is reused verbatim; and the Root
\* component of the output's x-amzn-trace-id equals the output traceId.
C7_XRayTraceIdReusedVerbatim ==
    (fmt # NoRecord /\ rec.traceId # <<>>) =>
        /\ IsXRayIdAnyCase(fmt.traceId)
        /\ IsXRayIdAnyCase(rec.traceId) => fmt.traceId = rec.traceId
        /\ XAmznRootText(fmt.xAmznTraceId) = fmt.traceId

-----------------------------------------------------------------------------
(* The spans of one trace: TraceContext objects whose traceState is a Map    *)
(* held by reference (src/src/context/trace-context.ts, lines 149-163 and    *)
(* 200-208)                                                                  *)

MaxSpans == 3

\* the traceparent headers the first span of a trace is parsed from
SpanRootHeaders ==
    {<<"0", "0", "-">> \o TraceA \o <<"-">> \o SpanA \o <<"-">> \o f :
        f \in {<<"0", "0">>, <<"0", "1">>}}

\* the tracestate header texts handed to parseTraceState
TraceStateHeaders ==
    {<<>>,
     <<"k", "=", "v">>,
     <<"k", "=", "w", ",", "a", "=", "1">>,
     <<"b", "a", "d">>}

\* the TraceContext object spans[i] with its Map read through the reference
SpanValue(i) == [spans[i] EXCEPT !.traceState = maps[@]]

\* TraceContext.parseTraceParent(header) for the first span of a trace; a
\* span is the five fields, traceState being the reference of its Map, and
\* parent (history): the span createChildSpan was called on, 0 for the first
SpanRoot(h) ==
    LET res == ParseTraceParent(h, rng, now)
    IN  /\ spans = <<>>
        /\ spans' = <<[version |-> res.tc.version, traceId |-> res.tc.traceId,
                       spanId |-> res.tc.spanId, traceFlags |-> res.tc.traceFlags,
                       traceState |-> Len(maps) + 1, parent |-> 0]>>
        /\ maps' = Append(maps, res.tc.traceState)
        /\ rng' = rng + Len(res.drawn)
        /\ UNCHANGED <<now, op, hdr, tc, drawn, wire, ctxs, heap, lastSet, out, rec, fmt, body, clean, again, globalLogType, env, services, shaped, given, serialized, app, emitted, objs, frames, ret, http, logs>>

\* a mutant of createChildSpan: the child is given the parent's Map itself
ChildTraceStateAliased(p) == spans[p].traceState

\* createChildSpan, line 206: new Map(this.traceState) is a Map of its own
ChildTraceState(p) == Len(maps) + 1

\* spans[p].createChildSpan()
CallCreateChildSpan(p) ==
    LET child == CreateChildSpan(SpanValue(p), rng)
    IN  /\ Len(spans) < MaxSpans
        /\ spans' = Append(spans,
                      [version |-> child.tc.version, traceId |-> child.tc.traceId,
                       spanId |-> child.tc.spanId, traceFlags |-> child.tc.traceFlags,
                       traceState |-> ChildTraceState(p), parent |-> p])
        /\ maps' = Append(maps, child.tc.traceState)
        /\ rng' = rng + Len(child.drawn)
        /\ UNCHANGED <<now, op, hdr, tc, drawn, wire, ctxs, heap, lastSet, out, rec, fmt, body, clean, again, globalLogType, env, services, shaped, given, serialized, app, emitted, objs, frames, ret, http, logs>>

\* spans[i].parseTraceState(header): Map.set on the span's own Map object
CallParseTraceState(i, header) ==
    /\ maps' = [maps EXCEPT ![spans[i].traceState] =
                    ParseTraceState(SpanValue(i), header).traceState]
    /\ UNCHANGED <<rng, now, op, hdr, tc, drawn, wire, ctxs, heap, lastSet, out, rec, fmt, spans, body, clean, again, globalLogType, env, services, shaped, given, serialized, app, emitted, objs, frames, ret, http, logs>>

InitSpans ==
    /\ rng = 0
    /\ now \in 1..Len(Epochs)
    /\ CodecIdle /\ ContextsIdle /\ FormatterIdle /\ SpansIdle /\ SanitizerIdle /\ LogTypeIdle /\ SerializersIdle /\ ModuleIdle /\ CyclesIdle /\ InterceptorIdle

NextSpans ==
    \/ \E h \in SpanRootHeaders : SpanRoot(h)
    \/ \E p \in 1..Len(spans) : CallCreateChildSpan(p)
    \/ \E i \in 1..Len(spans), h \in TraceStateHeaders : CallParseTraceState(i, h)

SpecSpans == InitSpans /\ [][NextSpans]_vars

\* the step created a span by createChildSpan
ChildSpanCreated == Len(spans') = Len(spans) + 1 /\ spans # <<>>

\* the trace-state entries span i has after the step
TraceStateAfter(i) == maps'[spans'[i].traceState]

\* the step was parseTraceState on span i alone
OnlyTouched(i) ==
    \A j \in 1..Len(spans) :
        j # i => TraceStateAfter(j) = maps[spans[j].traceState]

\* C11: createChildSpan returns an identity with the parent's trace id and
\* flags, a span id different from the parent's, and trace-state entries
\* equal to the parent's but held in a Map of its own: a later parseTraceState
\* on one span changes the entries of no other span.
C11_ChildSpanCopiesState ==
    [][/\ ChildSpanCreated =>
            LET c == spans'[Len(spans')]
                p == spans[c.parent]
            IN  /\ c.traceId = p.traceId
                /\ c.traceFlags = p.traceFlags
                /\ c.version = p.version
                /\ c.spanId # p.spanId
                /\ TraceStateAfter(Len(spans')) = maps[p.traceState]
                /\ c.traceState # p.traceState
       /\ (spans' = spans /\ spans # <<>>) =>
            \E i \in 1..Len(spans) : OnlyTouched(i)]_vars

\* C11 witness: a child was forked from a span that had trace-state entries,
\* and parseTraceState then acted on both, leaving them with different entries
C11_Witness ==
    /\ Len(spans) >= 2
    /\ spans[2].parent = 1
    /\ maps[spans[1].traceState] = <<<<<<"k">>, <<"w">>>>, <<<<"a">>, <<"1">>>>>>
    /\ maps[spans[2].traceState] = <<<<<<"k">>, <<"v">>>>, <<<<"a">>, <<"1">>>>>>

-----------------------------------------------------------------------------
(* Claims about the outbound headers, checked under SpecCreate *)

-----------------------------------------------------------------------------
(* JavaScript values.  A value is a record                                   *)
(*   t:    its type ("undefined", "null", "boolean", "number", "string",     *)
(*         "array", "object"),                                               *)
(*   s:    the text of a string, the numeral of a number, true or false;     *)
(*   keys: the own enumerable keys of an object, in insertion order;         *)
(*   kids: the elements of an array, or the values of keys, in order.        *)

JsUndefined == [t |-> "undefined", s |-> <<>>, keys |-> <<>>, kids |-> <<>>]
JsNull == [t |-> "null", s |-> <<>>, keys |-> <<>>, kids |-> <<>>]
JsTrue == [t |-> "boolean", s |-> <<"t", "r", "u", "e">>, keys |-> <<>>, kids |-> <<>>]
JsFalse == [t |-> "boolean", s |-> <<"f", "a", "l", "s", "e">>, keys |-> <<>>, kids |-> <<>>]
JsNumber(numeral) == [t |-> "number", s |-> numeral, keys |-> <<>>, kids |-> <<>>]
JsString(text) == [t |-> "string", s |-> text, keys |-> <<>>, kids |-> <<>>]
JsArray(items) == [t |-> "array", s |-> <<>>, keys |-> <<>>, kids |-> items]
JsObject(ks, vs) == [t |-> "object", s |-> <<>>, keys |-> ks, kids |-> vs]

\* typeof v === 'object'
TypeofObject(v) == v.t \in {"null", "array", "object"}

\* !v
Falsy(v) ==
    \/ v.t \in {"undefined", "null"}
    \/ v = JsFalse
    \/ v.t = "number" /\ v.s \in {<<"0">>, <<"-", "0">>}
    \/ v.t = "string" /\ v.s = <<>>

\* obj[key] = value on a plain object
ObjectSet(o, k, v) ==
    IF \E i \in 1..Len(o.keys) : o.keys[i] = k
    THEN [o EXCEPT !.kids = [i \in 1..Len(o.kids) |->
                                IF o.keys[i] = k THEN v ELSE o.kids[i]]]
    ELSE [o EXCEPT !.keys = Append(@, k), !.kids = Append(@, v)]

\* the character at index i (from 1), "" outside the text
At(s, i) == IF i >= 1 /\ i <= Len(s) THEN s[i] ELSE ""

-----------------------------------------------------------------------------
(* JSON.parse on texts without escape sequences, fractions or exponents.     *)
(* A parse step returns [ok, v, i]: whether it matched, the value, and the   *)
(* index of the first character after it.                                    *)

JsonFail == [ok |-> FALSE, v |-> JsUndefined, i |-> 0]

JsonWs == {" ", "\t", "\n", "\r"}

RECURSIVE JsonSkip(_, _)
JsonSkip(s, i) == IF At(s, i) \in JsonWs THEN JsonSkip(s, i + 1) ELSE i

RECURSIVE DigitsEnd(_, _)
\* the index after the run of digits that starts at i
DigitsEnd(s, i) == IF At(s, i) \in Digits THEN DigitsEnd(s, i + 1) ELSE i

\* a string whose opening quote is at i
JsonString(s, i) ==
    LET closing == {j \in (i + 1)..Len(s) : s[j] = "\""}
    IN  IF At(s, i) # "\"" \/ closing = {} THEN JsonFail
        ELSE LET j == CHOOSE j \in closing : \A k \in closing : j <= k
             IN  [ok |-> TRUE, v |-> JsString(SubSeq(s, i + 1, j - 1)), i |-> j + 1]

JsonNumber(s, i) ==
    LET d == IF At(s, i) = "-" THEN i + 1 ELSE i
        e == DigitsEnd(s, d)
    IN  IF e = d \/ (At(s, d) = "0" /\ e > d + 1) THEN JsonFail
        ELSE [ok |-> TRUE, v |-> JsNumber(SubSeq(s, i, e - 1)), i |-> e]

JsonLiteral(s, i, word, v) ==
    IF SubSeq(s, i, Min(Len(s), i + Len(word) - 1)) = word
    THEN [ok |-> TRUE, v |-> v, i |-> i + Len(word)]
    ELSE JsonFail

RECURSIVE JsonValue(_, _)
RECURSIVE JsonMembers(_, _, _)
RECURSIVE JsonElements(_, _, _)

\* the members of an object from index i (the first character of a key) on
JsonMembers(s, i, o) ==
    LET k == JsonString(s, i)
        colon == JsonSkip(s, k.i)
        v == JsonValue(s, colon + 1)
        next == JsonSkip(s, v.i)
    IN  IF ~k.ok \/ At(s, colon) # ":" THEN JsonFail
        ELSE IF ~v.ok THEN JsonFail
        ELSE IF At(s, next) = "}"
             THEN [ok |-> TRUE, v |-> ObjectSet(o, k.v.s, v.v), i |-> next + 1]
        ELSE IF At(s, next) = ","
             THEN JsonMembers(s, JsonSkip(s, next + 1), ObjectSet(o, k.v.s, v.v))
        ELSE JsonFail

\* the elements of an array from index i on
JsonElements(s, i, a) ==
    LET v == JsonValue(s, i)
        next == JsonSkip(s, v.i)
    IN  IF ~v.ok THEN JsonFail
        ELSE IF At(s, next) = "]"
             THEN [ok |-> TRUE, v |-> JsArray(Append(a, v.v)), i |-> next + 1]
        ELSE IF At(s, next) = ","
             THEN JsonElements(s, next + 1, Append(a, v.v))
        ELSE JsonFail

JsonValue(s, i0) ==
    LET i == JsonSkip(s, i0)
        c == At(s, i)
        inner == JsonSkip(s, i + 1)
    IN  IF c = "{"
        THEN IF At(s, inner) = "}"
             THEN [ok |-> TRUE, v |-> JsObject(<<>>, <<>>), i |-> inner + 1]
             ELSE JsonMembers(s, inner, JsObject(<<>>, <<>>))
        ELSE IF c = "["
        THEN IF At(s, inner) = "]"
             THEN [ok |-> TRUE, v |-> JsArray(<<>>), i |-> inner + 1]
             ELSE JsonElements(s, inner, <<>>)
        ELSE IF c = "\"" THEN JsonString(s, i)
        ELSE IF c = "-" \/ c \in Digits THEN JsonNumber(s, i)
        ELSE IF c = "t" THEN JsonLiteral(s, i, <<"t", "r", "u", "e">>, JsTrue)
        ELSE IF c = "f" THEN JsonLiteral(s, i, <<"f", "a", "l", "s", "e">>, JsFalse)
        ELSE IF c = "n" THEN JsonLiteral(s, i, <<"n", "u", "l", "l">>, JsNull)
        ELSE JsonFail

\* JSON.parse(s): [ok |-> FALSE] stands for the SyntaxError it throws
JsonParse(s) ==
    LET r == JsonValue(s, 1)
    IN  IF r.ok /\ JsonSkip(s, r.i) > Len(s) THEN r ELSE JsonFail

-----------------------------------------------------------------------------
(* The sanitizer: src/src/utils/sanitizers.ts, with the limits and the       *)
(* default sensitive fields of src/unnamed/part_003 (config/constants)       *)

JSON_DEPTH == 10
ARRAY_LENGTH == 100

DEFAULT_SENSITIVE_FIELDS ==
    {<<"p", "a", "s", "s", "w", "o", "r", "d">>,
     <<"t", "o", "k", "e", "n">>,
     <<"a", "u", "t", "h", "o", "r", "i", "z", "a", "t", "i", "o", "n">>,
     <<"k", "e", "y">>,
     <<"s", "e", "c", "r", "e", "t">>,
     <<"c", "r", "e", "d", "e", "n", "t", "i", "a", "l">>,
     <<"c", "r", "e", "d", "i", "t", "c", "a", "r", "d">>,
     <<"c", "r", "e", "d", "i", "t", "_", "c", "a", "r", "d">>,
     <<"c", "a", "r", "d", "n", "u", "m", "b", "e", "r">>,
     <<"a", "p", "i", "k", "e", "y">>,
     <<"p", "h", "o", "n", "e">>,
     <<"e", "m", "a", "i", "l">>,
     <<"d", "o", "b">>,
     <<"b", "i", "r", "t", "h">>,
     <<"s", "o", "c", "i", "a", "l">>}

Letters == Range(LowerLetters) \cup Range(UpperLetters)

\* \w
IsWord(c) == c \in Letters \cup Digits \cup {"_"}

\* \b between the characters at i - 1 and i
Boundary(s, i) == IsWord(At(s, i - 1)) # IsWord(At(s, i))

\* \d{n} at index i
DigitsAt(s, i, n) == \A k \in 0..(n - 1) : At(s, i + k) \in Digits

\* every character of s from index a to index b is in the class
AllIn(s, a, b, class) == \A k \in a..b : At(s, k) \in class

\* s.includes(sub)
Includes(s, sub) == IndexOf(s, sub) # 0

Base64Chars == Letters \cup Digits \cup {"+", "/"}

\* PATTERNS.BASE64_IMAGE: /^data:image\/[^;]+;base64,[^"'\s)]+$/
BASE64_IMAGE(s) ==
    LET prefix == <<"d", "a", "t", "a", ":", "i", "m", "a", "g", "e", "/">>
        marker == <<";", "b", "a", "s", "e", "6", "4", ",">>
        semis == {i \in (Len(prefix) + 1)..Len(s) : s[i] = ";"}
    IN  /\ StartsWith(s, prefix)
        /\ semis # {}
        /\ LET p == CHOOSE i \in semis : \A j \in semis : i <= j
           IN  /\ p > Len(prefix) + 1
               /\ SubSeq(s, p, Min(Len(s), p + Len(marker) - 1)) = marker
               /\ Len(s) >= p + Len(marker)
               /\ \A k \in (p + Len(marker))..Len(s) :
                      s[k] \notin {"\"", "'", ")", " ", "\t", "\n", "\r"}

\* PATTERNS.BASE64_GENERIC:
\* /^(?:[A-Za-z0-9+/]{4}){10,}(?:[A-Za-z0-9+/]{2}==|[A-Za-z0-9+/]{3}=)?$/
BASE64_GENERIC(s) ==
    LET n == Len(s)
    IN  /\ n % 4 = 0
        /\ \/ n >= 40 /\ AllIn(s, 1, n, Base64Chars)
           \/ n >= 44 /\ AllIn(s, 1, n - 2, Base64Chars) /\ s[n - 1] = "=" /\ s[n] = "="
           \/ n >= 44 /\ AllIn(s, 1, n - 1, Base64Chars) /\ s[n] = "="

ImageExtensions ==
    {<<"j", "p", "g">>, <<"j", "p", "e", "g">>, <<"p", "n", "g">>, <<"g", "i", "f">>,
     <<"s", "v", "g">>, <<"w", "e", "b", "p">>, <<"b", "m", "p">>, <<"i", "c", "o">>}

\* PATTERNS.IMAGE_URL: /\.(jpe?g|png|gif|svg|webp|bmp|ico)($|\?)/i
IMAGE_URL(s) ==
    \E i \in 1..Len(s) : \E ext \in ImageExtensions :
        /\ s[i] = "."
        /\ i + Len(ext) <= Len(s)
        /\ ToLowerCase(SubSeq(s, i + 1, i + Len(ext))) = ext
        /\ At(s, i + Len(ext) + 1) \in {"", "?"}

RECURSIVE CardGroups(_, _, _)
\* n groups of \d{4} from index i on, [- ]? between them, \b after the last
CardGroups(s, i, n) ==
    /\ DigitsAt(s, i, 4)
    /\ IF n = 1 THEN Boundary(s, i + 4)
       ELSE \/ CardGroups(s, i + 4, n - 1)
            \/ At(s, i + 4) \in {"-", " "} /\ CardGroups(s, i + 5, n - 1)

\* PATTERNS.CREDIT_CARD: /\b\d{4}[- ]?\d{4}[- ]?\d{4}[- ]?\d{4}\b/
CREDIT_CARD(s) == \E i \in 1..Len(s) : Boundary(s, i) /\ CardGroups(s, i, 4)

\* PATTERNS.SSN: /\b\d{3}[-]?\d{2}[-]?\d{4}\b/
SSN(s) ==
    \E i \in 1..Len(s) : \E a \in {0, 1}, b \in {0, 1} :
        /\ Boundary(s, i)
        /\ DigitsAt(s, i, 3)
        /\ a = 1 => At(s, i + 3) = "-"
        /\ DigitsAt(s, i + 3 + a, 2)
        /\ b = 1 => At(s, i + 5 + a) = "-"
        /\ DigitsAt(s, i + 5 + a + b, 4)
        /\ Boundary(s, i + 9 + a + b)

\* PATTERNS.EMAIL: /\b[A-Za-z0-9._%+-]+@[A-Za-z0-9.-]+\.[A-Z|a-z]{2,}\b/
EMAIL(s) ==
    LET local == Letters \cup Digits \cup {".", "_", "%", "+", "-"}
        domain == Letters \cup Digits \cup {".", "-"}
        tld == Letters \cup {"|"}
    IN  \E a \in {i \in 2..Len(s) : s[i] = "@"} :
            /\ \E i \in 1..(a - 1) : Boundary(s, i) /\ AllIn(s, i, a - 1, local)
            /\ \E d \in {i \in (a + 2)..Len(s) : s[i] = "."} :
                   /\ AllIn(s, a + 1, d - 1, domain)
                   /\ \E e \in (d + 2)..Len(s) :
                          AllIn(s, d + 1, e, tld) /\ Boundary(s, e + 1)

BASE64_REDACTED ==
    <<"[", "B", "A", "S", "E", "6", "4", " ", "R", "E", "D", "A", "C", "T", "E", "D", "]">>
IMAGE_URL_REDACTED ==
    <<"[", "I", "M", "A", "G", "E", " ", "U", "R", "L", " ", "R", "E", "D", "A", "C", "T", "E", "D", "]">>
REDACTED == <<"[", "R", "E", "D", "A", "C", "T", "E", "D", "]">>
IMAGE_DATA_REDACTED ==
    <<"[", "I", "M", "A", "G", "E", " ", "D", "A", "T", "A", " ", "R", "E", "D", "A", "C", "T", "E", "D", "]">>
BASE64_DATA_REDACTED ==
    <<"[", "B", "A", "S", "E", "6", "4", " ", "D", "A", "T", "A", " ", "R", "E", "D", "A", "C", "T", "E", "D", "]">>
CREDIT_CARD_REDACTED ==
    <<"[", "C", "R", "E", "D", "I", "T", " ", "C", "A", "R", "D", " ", "R", "E", "D", "A", "C", "T", "E", "D", "]">>
SSN_REDACTED == <<"[", "S", "S", "N", " ", "R", "E", "D", "A", "C", "T", "E", "D", "]">>
EMAIL_REDACTED ==
    <<"[", "E", "M", "A", "I", "L", " ", "R", "E", "D", "A", "C", "T", "E", "D", "]">>
MAX_DEPTH_EXCEEDED ==
    <<"[", "M", "A", "X", " ", "D", "E", "P", "T", "H", " ", "E", "X", "C", "E", "E", "D", "E", "D", "]">>

\* the length above which string values are tested against the patterns
PatternLength == 100

SanitizeImageData(value) ==
    IF value.t # "string" THEN value
    ELSE IF Len(value.s) > PatternLength
            /\ (BASE64_IMAGE(value.s) \/ BASE64_GENERIC(value.s))
         THEN JsString(BASE64_REDACTED)
    ELSE IF Len(value.s) > PatternLength /\ IMAGE_URL(value.s)
         THEN JsString(IMAGE_URL_REDACTED)
    ELSE value

\* a mutant of sanitizeValue: the key is looked up as it is written
SanitizeValueCaseSensitive(key, value, sensitiveFields) ==
    IF key \in sensitiveFields THEN JsString(REDACTED)
    ELSE IF Falsy(value) \/ value.t # "string" \/ Len(value.s) <= PatternLength THEN value
    ELSE JsString(IMAGE_DATA_REDACTED)

SanitizeValue(key, value, sensitiveFields) ==
    LET keyLower == ToLowerCase(key)
    IN  IF keyLower \in sensitiveFields THEN JsString(REDACTED)
        ELSE IF Falsy(value) \/ value.t # "string" THEN value
        ELSE IF Len(value.s) > PatternLength
                /\ (\/ Includes(keyLower, <<"i", "m", "a", "g", "e">>)
                    \/ StartsWith(value.s,
                           <<"d", "a", "t", "a", ":", "i", "m", "a", "g", "e", "/">>))
             THEN JsString(IMAGE_DATA_REDACTED)
        ELSE IF Len(value.s) > PatternLength /\ BASE64_GENERIC(value.s)
             THEN JsString(BASE64_DATA_REDACTED)
        ELSE IF Len(value.s) > PatternLength /\ CREDIT_CARD(value.s)
             THEN JsString(CREDIT_CARD_REDACTED)
        ELSE IF Len(value.s) > PatternLength /\ SSN(value.s)
             THEN JsString(SSN_REDACTED)
        ELSE IF Len(value.s) > PatternLength /\ EMAIL(value.s)
             THEN JsString(EMAIL_REDACTED)
        ELSE SanitizeImageData(value)

\* tryParseJson(str): the parsed object or array, JsNull for null
TryParseJson(str) ==
    IF str.t # "string" THEN JsNull
    ELSE LET trimmed == Trim(str.s)
         IN  IF ~StartsWith(trimmed, <<"{">>) /\ ~StartsWith(trimmed, <<"[">>)
             THEN JsNull
             ELSE IF JsonParse(trimmed).ok THEN JsonParse(trimmed).v ELSE JsNull

\* a mutant of Array.prototype.slice: the whole array, whatever the end index
ArrayWhole(items, start, end) == items

\* a mutant of Array.prototype.slice: the start index is counted from 1
ArraySliceFromOne(items, start, end) == SubSeq(items, start + 2, Min(end, Len(items)))

\* items.slice(start, end), 0 <= start <= end
ArraySlice(items, start, end) == SubSeq(items, start + 1, Min(end, Len(items)))

RECURSIVE CallsUpTo(_, _)
\* the calls made by the first n of the runs
CallsUpTo(runs, n) == IF n = 0 THEN 0 ELSE runs[n].calls + CallsUpTo(runs, n - 1)

\* the calls made by the recursive runs of one sanitizeBody call
TotalCalls(runs) == CallsUpTo(runs, Len(runs))

\* a mutant of the depth check: one more level is let through
DepthExceededLate(depth) == depth > JSON_DEPTH

\* a mutant of the depth check: no depth is too deep
DepthNeverExceeded(depth) == FALSE

\* sanitizeBody, line 127: depth >= CONTENT_LIMITS.JSON_DEPTH
DepthExceeded(depth) == depth >= JSON_DEPTH

RECURSIVE SanitizeBodyRun(_, _, _)
\* sanitizeBody(obj, sensitiveFields, depth): [v, calls], the value returned
\* and the number of sanitizeBody calls made, this one included.  The keys
\* of obj are distinct, so the reduce builds one entry per key, in order.
SanitizeBodyRun(obj, sensitiveFields, depth) ==
    IF obj.t = "string"
    THEN LET parsed == TryParseJson(obj)
         IN  IF parsed # JsNull
             THEN LET inner == SanitizeBodyRun(parsed, sensitiveFields, depth)
                  IN  [v |-> inner.v, calls |-> inner.calls + 1]
             ELSE [v |-> obj, calls |-> 1]
    ELSE IF Falsy(obj) \/ ~TypeofObject(obj) THEN [v |-> obj, calls |-> 1]
    ELSE IF DepthExceeded(depth)
    THEN [v |-> JsString(MAX_DEPTH_EXCEEDED), calls |-> 1]
    ELSE IF obj.t = "array"
    THEN LET items == ArraySlice(obj.kids, 0, ARRAY_LENGTH)
             runs == [i \in 1..Len(items) |->
                        SanitizeBodyRun(items[i], sensitiveFields, depth + 1)]
         IN  [v |-> JsArray([i \in 1..Len(runs) |-> runs[i].v]),
              calls |-> 1 + TotalCalls(runs)]
    ELSE LET runs == [i \in 1..Len(obj.kids) |->
                        IF TypeofObject(obj.kids[i])
                        THEN SanitizeBodyRun(obj.kids[i], sensitiveFields, depth + 1)
                        ELSE [v |-> obj.kids[i], calls |-> 0]]
         IN  [v |-> JsObject(obj.keys, [i \in 1..Len(runs) |->
                        SanitizeValue(obj.keys[i], runs[i].v, sensitiveFields)]),
              calls |-> 1 + TotalCalls(runs)]

\* sanitizeBody(obj, sensitiveFields, depth)
SanitizeBody(obj, sensitiveFields, depth) ==
    SanitizeBodyRun(obj, sensitiveFields, depth).v

-----------------------------------------------------------------------------
(* Inputs: the values the model hands to sanitizeBody *)

MaxNest == 11
MaxWide == 102

RECURSIVE Decimal(_)
\* String(n), n a non-negative integer
Decimal(n) ==
    IF n < 10 THEN <<HexDigit(n)>> ELSE Decimal(n \div 10) \o <<HexDigit(n % 10)>>

RECURSIVE Stringify(_)
\* JSON.stringify(v) for a value without undefined and without characters
\* that need escaping
Stringify(v) ==
    IF v.t = "null" THEN <<"n", "u", "l", "l">>
    ELSE IF v.t \in {"number", "boolean"} THEN v.s
    ELSE IF v.t = "string" THEN <<"\"">> \o v.s \o <<"\"">>
    ELSE IF v.t = "array"
    THEN <<"[">> \o Join([i \in 1..Len(v.kids) |-> Stringify(v.kids[i])], <<",">>)
             \o <<"]">>
    ELSE <<"{">> \o Join([i \in 1..Len(v.kids) |->
                            <<"\"">> \o v.keys[i] \o <<"\"", ":">> \o Stringify(v.kids[i])],
                         <<",">>) \o <<"}">>

KeyName == <<"n", "a", "m", "e">>
KeyPassword == <<"p", "a", "s", "s", "w", "o", "r", "d">>
KeyPassWord == <<"P", "a", "s", "s", "W", "o", "r", "d">>
KeyApiKey == <<"A", "P", "I", "K", "E", "Y">>
KeyImage == <<"p", "r", "o", "f", "i", "l", "e", "I", "m", "a", "g", "e">>
KeyDeep == <<"d", "e", "e", "p">>

Ann == JsString(<<"A", "n", "n">>)
Pass1234 == JsString(<<"p", "@", "s", "s", "1", "2", "3", "4">>)
Hidden == JsString(<<"h", "i", "d", "d", "e", "n">>)

\* the scenario body {password: 'p@ss1234', name: 'Ann'}
ScenarioBody == JsObject(<<KeyPassword, KeyName>>, <<Pass1234, Ann>>)

\* strings of more than 100 characters, one for each pattern, and one of
\* exactly 100 characters that holds an e-mail address
LongStrings ==
    {Rep("x", 101),
     Rep("A", 104),
     Rep(" ", 90) \o <<"4", "1", "1", "1", " ", "1", "1", "1", "1", "-", "1", "1", "1", "1", "1", "1", "1", "1">>,
     Rep(" ", 95) \o <<"1", "2", "3", "-", "4", "5", "-", "6", "7", "8", "9">>,
     Rep(" ", 95) \o <<"a", "n", "n", "@", "e", "x", ".", "i", "o">>,
     <<"d", "a", "t", "a", ":", "i", "m", "a", "g", "e", "/", "p", "n", "g", ";",
       "b", "a", "s", "e", "6", "4", ",">> \o Rep("A", 90),
     <<"h", "t", "t", "p", ":", "/", "/", "h", "/">> \o Rep("a", 100) \o <<".", "P", "N", "G">>,
     Rep(" ", 91) \o <<"a", "n", "n", "@", "e", "x", ".", "i", "o">>}

Scalars ==
    {JsUndefined, JsNull, JsTrue, JsFalse, JsNumber(<<"0">>), JsNumber(<<"7">>),
     JsString(<<>>), Ann, Pass1234,
     JsString(REDACTED), JsString(MAX_DEPTH_EXCEEDED), JsString(EMAIL_REDACTED),
     JsString(<<"{", "b", "a", "d">>),
     JsString(<<" ", "[", "1", ",", " ", "t", "r", "u", "e", "]", " ">>),
     JsString(Stringify(ScenarioBody)),
     JsString(Stringify(JsArray(<<JsString(<<"[", "7", "]">>), ScenarioBody>>)))}
    \cup {JsString(t) : t \in LongStrings}

\* v inside k containers: objects with the one key deep, arrays, or both in turn
RECURSIVE Nest(_, _, _)
Nest(v, k, kind) ==
    IF k = 0 THEN v
    ELSE IF kind = "object" \/ (kind = "mixed" /\ k % 2 = 0)
    THEN JsObject(<<KeyDeep>>, <<Nest(v, k - 1, kind)>>)
    ELSE JsArray(<<Nest(v, k - 1, kind)>>)

\* what sits at the bottom of a nest
NestCores ==
    {JsObject(<<KeyName>>, <<Hidden>>),
     JsArray(<<Hidden>>),
     Hidden,
     JsString(Stringify(JsObject(<<KeyName>>, <<Hidden>>))),
     JsObject(<<KeyPassword>>, <<JsObject(<<KeyName>>, <<Hidden>>)>>),
     JsObject(<<KeyName, KeyPassWord>>, <<JsArray(<<Hidden>>), JsArray(<<Hidden>>)>>)}

Nests ==
    {Nest(v, k, kind) : v \in NestCores, k \in (JSON_DEPTH - 2)..MaxNest,
                        kind \in {"object", "array", "mixed"}}

\* the array of the numbers 1..n
Wide(n) == JsArray([i \in 1..n |-> JsNumber(Decimal(i))])

WideLengths == {0, 1, ARRAY_LENGTH - 1, ARRAY_LENGTH, ARRAY_LENGTH + 1, MaxWide}

Wides ==
    {Wide(n) : n \in WideLengths}
    \cup {JsArray([i \in 1..n |-> JsObject(<<KeyPassword>>, <<JsNumber(Decimal(i))>>)]) :
            n \in {ARRAY_LENGTH, MaxWide}}
    \cup {JsString(Stringify(Wide(3))),
          JsObject(<<KeyName>>, <<Wide(MaxWide)>>),
          JsArray(<<Wide(MaxWide), Wide(1)>>)}

Bodies ==
    Scalars
    \cup {JsObject(<<k>>, <<v>>) :
            k \in {KeyName, KeyPassword, KeyPassWord, KeyApiKey, KeyImage},
            v \in Scalars \cup {ScenarioBody, JsArray(<<Ann>>)}}
    \cup {JsArray(<<v>>) : v \in Scalars}
    \cup {ScenarioBody,
          JsObject(<<KeyName>>, <<JsArray(<<ScenarioBody, JsNull>>)>>),
          JsArray(<<JsArray(<<>>), JsObject(<<>>, <<>>)>>)}
    \cup Nests
    \cup Wides

-----------------------------------------------------------------------------
(* The sanitizer at work: a body is sanitized, and the result once more *)

CallSanitizeBody(obj) ==
    /\ body = NoBody
    /\ body' = obj
    /\ clean' = SanitizeBodyRun(obj, DEFAULT_SENSITIVE_FIELDS, 0)
    /\ UNCHANGED <<rng, now, op, hdr, tc, drawn, wire, ctxs, heap, lastSet, out, rec, fmt, spans, maps, again, globalLogType, env, services, shaped, given, serialized, app, emitted, objs, frames, ret, http, logs>>

CallSanitizeBodyAgain ==
    /\ body # NoBody
    /\ again = NoRun
    /\ again' = SanitizeBodyRun(clean.v, DEFAULT_SENSITIVE_FIELDS, 0)
    /\ UNCHANGED <<rng, now, op, hdr, tc, drawn, wire, ctxs, heap, lastSet, out, rec, fmt, spans, maps, body, clean, globalLogType, env, services, shaped, given, serialized, app, emitted, objs, frames, ret, http, logs>>

InitSanitizer ==
    /\ rng = 0
    /\ now = 1
    /\ CodecIdle /\ ContextsIdle /\ FormatterIdle /\ SpansIdle /\ SanitizerIdle /\ LogTypeIdle /\ SerializersIdle /\ ModuleIdle /\ CyclesIdle /\ InterceptorIdle

NextSanitizer ==
    \/ \E obj \in Bodies : CallSanitizeBody(obj)
    \/ CallSanitizeBodyAgain

SpecSanitizer == InitSanitizer /\ [][NextSanitizer]_vars

\* C13: sanitizing the result of sanitizeBody once more returns that result.
C13_SanitizeBodyIdempotent ==
    again # NoRun => again.v = clean.v

\* C13 witness: a body with a sensitive key and containers at the depth bound
\* was sanitized twice, and the first pass changed it
C13_Witness ==
    /\ again # NoRun
    /\ body = Nest(JsObject(<<KeyName, KeyPassWord>>,
                            <<JsArray(<<Hidden>>), JsArray(<<Hidden>>)>>),
                   JSON_DEPTH - 1, "mixed")
    /\ clean.v = Nest(JsObject(<<KeyName, KeyPassWord>>,
                               <<JsString(MAX_DEPTH_EXCEEDED), JsString(REDACTED)>>),
                      JSON_DEPTH - 1, "mixed")

IsContainer(v) == v.t \in {"array", "object"}

\* the structure sanitizeBody works on: the parsed value of a JSON text
Structured(v) == IF TryParseJson(v) # JsNull THEN TryParseJson(v) ELSE v

IsSensitive(key) == ToLowerCase(key) \in DEFAULT_SENSITIVE_FIELDS

RECURSIVE FieldsRedacted(_, _, _)
\* res is arg with the value of every sensitive key replaced by the marker and
\* every short scalar of another key kept, down to the depth bound
FieldsRedacted(arg, res, depth) ==
    IF IsContainer(arg) /\ depth >= JSON_DEPTH THEN res = JsString(MAX_DEPTH_EXCEEDED)
    ELSE IF arg.t = "object"
    THEN /\ res.t = "object"
         /\ res.keys = arg.keys
         /\ \A i \in 1..Len(arg.keys) :
                IF IsSensitive(arg.keys[i]) THEN res.kids[i] = JsString(REDACTED)
                ELSE IF IsContainer(arg.kids[i])
                THEN FieldsRedacted(arg.kids[i], res.kids[i], depth + 1)
                ELSE (arg.kids[i].t # "string" \/ Len(arg.kids[i].s) <= PatternLength)
                        => res.kids[i] = arg.kids[i]
    ELSE IF arg.t = "array"
    THEN /\ res.t = "array"
         /\ Len(res.kids) = Min(Len(arg.kids), ARRAY_LENGTH)
         /\ \A i \in 1..Len(res.kids) :
                FieldsRedacted(Structured(arg.kids[i]), res.kids[i], depth + 1)
    ELSE TRUE

\* C14: with the default sensitive fields, sanitizeBody replaces the value of
\* every key whose lower-cased name is sensitive by '[REDACTED]', at every
\* level above the depth bound and for every type of value, and returns the
\* short scalars of the other keys unchanged.
C14_SensitiveKeysRedacted ==
    body # NoBody => FieldsRedacted(Structured(body), clean.v, 0)

\* C14 witness: {password: 'p@ss1234', name: 'Ann'} gave
\* {password: '[REDACTED]', name: 'Ann'}
C14_Witness ==
    /\ body = ScenarioBody
    /\ clean.v = JsObject(<<KeyPassword, KeyName>>, <<JsString(REDACTED), Ann>>)

RECURSIVE HasDeep(_, _)
\* v, sitting at nesting depth depth, is or holds a container at the bound
HasDeep(v, depth) ==
    /\ IsContainer(v)
    /\ \/ depth >= JSON_DEPTH
       \/ \E i \in 1..Len(v.kids) : HasDeep(v.kids[i], depth + 1)

RECURSIVE ReplacedAtDepth(_, _, _)
\* res has the depth marker wherever arg has a container at the bound
ReplacedAtDepth(arg, res, depth) ==
    IF ~IsContainer(arg) THEN TRUE
    ELSE IF depth >= JSON_DEPTH THEN res = JsString(MAX_DEPTH_EXCEEDED)
    ELSE \A i \in 1..Len(arg.kids) :
            HasDeep(arg.kids[i], depth + 1) =>
                /\ res.t = arg.t
                /\ i <= Len(res.kids)
                /\ ReplacedAtDepth(arg.kids[i], res.kids[i], depth + 1)

RECURSIVE ReplacedOrRedacted(_, _, _)
\* res has the depth marker wherever arg has a container at the bound, but
\* for what the value of a sensitive key holds, which is redacted as a whole,
\* and what the elements of an array after the first ARRAY_LENGTH hold
ReplacedOrRedacted(arg, res, depth) ==
    IF ~IsContainer(arg) THEN TRUE
    ELSE IF depth >= JSON_DEPTH THEN res = JsString(MAX_DEPTH_EXCEEDED)
    ELSE /\ res.t = arg.t
         /\ \A i \in 1..Len(arg.kids) :
                HasDeep(arg.kids[i], depth + 1) =>
                    IF arg.t = "object" /\ IsSensitive(arg.keys[i])
                    THEN res.kids[i] = JsString(REDACTED)
                    ELSE IF arg.t = "array" /\ i > ARRAY_LENGTH
                    THEN Len(res.kids) = ARRAY_LENGTH
                    ELSE /\ i <= Len(res.kids)
                         /\ ReplacedOrRedacted(arg.kids[i], res.kids[i], depth + 1)

RECURSIVE Atoms(_)
\* the keys, string texts and numerals that occur in v
Atoms(v) ==
    {v.s} \cup Range(v.keys) \cup UNION {Atoms(v.kids[i]) : i \in 1..Len(v.kids)}

RECURSIVE ShallowAtoms(_, _)
\* the keys, string texts and numerals of v, sitting at nesting depth depth,
\* that do not lie inside a container at the bound; a JSON text counts as
\* itself and as the structure it encodes
ShallowAtoms(v, depth) ==
    IF IsContainer(v)
    THEN IF depth >= JSON_DEPTH THEN {}
         ELSE Range(v.keys)
                \cup UNION {ShallowAtoms(v.kids[i], depth + 1) : i \in 1..Len(v.kids)}
    ELSE {v.s} \cup (IF TryParseJson(v) # JsNull
                     THEN ShallowAtoms(TryParseJson(v), depth) ELSE {})

\* the texts sanitizeBody itself puts into a result
MarkerTexts ==
    {<<>>, REDACTED, MAX_DEPTH_EXCEEDED, IMAGE_DATA_REDACTED, BASE64_DATA_REDACTED,
     CREDIT_CARD_REDACTED, SSN_REDACTED, EMAIL_REDACTED, BASE64_REDACTED,
     IMAGE_URL_REDACTED}

\* no key and no value from inside a container at the bound is in the result
NothingFromBelow == Atoms(clean.v) \subseteq ShallowAtoms(body, 0) \cup MarkerTexts

\* C15 as stated: every container at nesting depth >= JSON_DEPTH is replaced
\* by '[MAX DEPTH EXCEEDED]', and no key or value from below that boundary is
\* in the output.
C15_DeepContainersReplaced ==
    body # NoBody =>
        ReplacedAtDepth(Structured(body), clean.v, 0) /\ NothingFromBelow

\* C15 amended: every container at nesting depth >= JSON_DEPTH is replaced by
\* '[MAX DEPTH EXCEEDED]' unless it lies in the value of a sensitive key,
\* which is replaced by '[REDACTED]' as a whole, or in an array element after
\* the first ARRAY_LENGTH, which are dropped; no key or value from below the
\* boundary is in the output.
C15_DeepContainersReplacedOrRedacted ==
    body # NoBody =>
        ReplacedOrRedacted(Structured(body), clean.v, 0) /\ NothingFromBelow

\* C15 witness: an object at depth JSON_DEPTH - 1 holds an array under a plain
\* key and an array under a sensitive key, both at the bound
C15_Witness ==
    /\ body = Nest(JsObject(<<KeyName, KeyPassWord>>,
                            <<JsArray(<<Hidden>>), JsArray(<<Hidden>>)>>),
                   JSON_DEPTH - 1, "object")
    /\ clean.v = Nest(JsObject(<<KeyName, KeyPassWord>>,
                               <<JsString(MAX_DEPTH_EXCEEDED), JsString(REDACTED)>>),
                      JSON_DEPTH - 1, "object")

\* C16: sanitizeBody on an array of n elements returns an array of
\* min(n, ARRAY_LENGTH) elements, the i-th being the sanitized i-th element
\* of the input, and makes no call for an element after the first
\* ARRAY_LENGTH.
C16_ArrayTruncatedBeforeRecursion ==
    body.t = "array" =>
        LET n == Min(Len(body.kids), ARRAY_LENGTH)
            runs == [i \in 1..n |->
                        SanitizeBodyRun(body.kids[i], DEFAULT_SENSITIVE_FIELDS, 1)]
        IN  /\ clean.v.t = "array"
            /\ Len(clean.v.kids) = n
            /\ \A i \in 1..n : clean.v.kids[i] = runs[i].v
            /\ clean.calls = 1 + TotalCalls(runs)

\* C16 witness: an array of more than ARRAY_LENGTH numbers came back as its
\* first ARRAY_LENGTH elements after ARRAY_LENGTH + 1 calls
C16_Witness ==
    /\ body = Wide(MaxWide)
    /\ clean.v = Wide(ARRAY_LENGTH)
    /\ clean.calls = ARRAY_LENGTH + 1

-----------------------------------------------------------------------------
(* The vendor mode and the two log shapes: src/src/formatters/index.ts,        *)
(* src/unnamed/part_009 (formatters/gcp), src/unnamed/part_010 (formatters/aws)*)
(* and src/unnamed/part_013 (logger/base-logger.service.ts)                    *)

MaxServices == 2

\* the values a LOG_TYPE setting takes; "undefined" is a missing one
VendorModes == {"undefined", "aws", "gcp"}

Proj1 == <<"p", "r", "o", "j", "1">>
Proj2 == <<"p", "r", "o", "j", "2">>
Abc123 == <<"a", "b", "c", "1", "2", "3">>

\* SEVERITY_LEVEL[label]; "undefined" for a label the table does not have
SEVERITY_LEVEL(label) ==
    CASE label = "trace" -> "DEBUG"
      [] label = "debug" -> "DEBUG"
      [] label = "info" -> "INFO"
      [] label = "warn" -> "WARNING"
      [] label = "error" -> "ERROR"
      [] label = "fatal" -> "CRITICAL"
      [] OTHER -> "undefined"

\* a || b on texts where "undefined" is the missing value
OrElse(a, b) == IF a # "undefined" THEN a ELSE b

\* a || b on character texts, '' and undefined both being <<>>
OrText(a, b) == IF a # <<>> THEN a ELSE b

\* getLogType() of a reader that never looks at the module variable
GetLogTypeFromEnvOnly == OrElse(env.LOG_TYPE, "gcp")

\* getLogType()
GetLogType == OrElse(globalLogType, OrElse(env.LOG_TYPE, "gcp"))

\* setGlobalLogType(logType)
SetGlobalLogType(logType) == globalLogType' = logType

\* the constructor of BaseLoggerService, which new and child() both run
Constructor(config) ==
    /\ IF config.LOG_TYPE # "undefined"
       THEN SetGlobalLogType(config.LOG_TYPE)
       ELSE UNCHANGED globalLogType
    /\ services' = Append(services, config)

\* new BaseLoggerService(config, asyncStorage): a module registered with config
NewBaseLoggerService(config) ==
    /\ Len(services) < MaxServices
    /\ Constructor(config)
    /\ UNCHANGED <<rng, now, op, hdr, tc, drawn, wire, ctxs, heap, lastSet, out, rec, fmt, spans, maps, body, clean, again, env, shaped, given, serialized, app, emitted, objs, frames, ret, http, logs>>

\* services[i].child(bindings): a new service on the parent's config
Child(i) ==
    /\ Len(services) < MaxServices
    /\ Constructor(services[i])
    /\ UNCHANGED <<rng, now, op, hdr, tc, drawn, wire, ctxs, heap, lastSet, out, rec, fmt, spans, maps, body, clean, again, env, shaped, given, serialized, app, emitted, objs, frames, ret, http, logs>>

\* A log record of this section carries the keys level (a pino label,
\* "undefined" when absent), severity (its own, "undefined" when absent),
\* traceId, PROJECT_ID and projectId (texts, <<>> when absent) and LOG_TYPE;
\* it has no key logType and none that starts with logging.googleapis.com.
LevelLabels ==
    {"undefined", "trace", "debug", "info", "warn", "error", "fatal", "verbose"}

SeverityEntries ==
    [level : LevelLabels, severity : {"undefined", "NOTICE"},
     traceId : {Abc123}, PROJECT_ID : {<<>>}, projectId : {Proj1},
     LOG_TYPE : VendorModes]

TraceEntries ==
    [level : {"undefined", "error"}, severity : {"undefined"},
     traceId : {<<>>, Abc123}, PROJECT_ID : {<<>>, Proj2},
     projectId : {<<>>, Proj1}, LOG_TYPE : {"undefined"}]

Entries == SeverityEntries \cup TraceEntries

\* FormatterOptions: LOG_TYPE, PROJECT_ID and includeTrace (true when left out)
FormatterOptions ==
    [LOG_TYPE : VendorModes, PROJECT_ID : {<<>>, Proj2}, includeTrace : BOOLEAN]

NoOptions == [LOG_TYPE |-> "undefined", PROJECT_ID |-> <<>>, includeTrace |-> TRUE]

\* `projects/${projectId}/traces/${traceId}`
TracePath(projectId, traceId) ==
    <<"p", "r", "o", "j", "e", "c", "t", "s", "/">> \o projectId
        \o <<"/", "t", "r", "a", "c", "e", "s", "/">> \o traceId

\* What a shaped record is read for: shape tells the vendor structure it has
\* (the key aws, or the key logging.googleapis.com/labels), severity its key
\* severity ("undefined" when it has none) and trace its key
\* logging.googleapis.com/trace (<<>> when it has none).
Shaped(shape, severity, trace) ==
    [shape |-> shape, severity |-> severity, trace |-> trace]

\* formatGcpLog(log): extractCommonFields takes level and severity out of what
\* is spread into the result, and nothing puts a severity back
FormatGcpLog(log) ==
    LET projectId == OrText(log.PROJECT_ID, OrText(log.projectId, env.PROJECT_ID))
    IN  Shaped("gcp", "undefined",
               IF log.traceId # <<>> /\ projectId # <<>>
               THEN TracePath(projectId, log.traceId)
               ELSE <<>>)

\* formatAwsLog(object) of formatters/aws, its keys severity and
\* logging.googleapis.com/trace: cleanGcpFields drops the one, line 75 the other
FormatAwsLogKeys(object) == Shaped("aws", "undefined", <<>>)

\* formatJsonLog(log, options) of formatters/index.ts taking the default first
FormatJsonLogDefaultFirst(log, options) ==
    LET logType == IF globalLogType # "undefined" \/ env.LOG_TYPE # "undefined"
                   THEN GetLogType
                   ELSE OrElse(options.LOG_TYPE, "gcp")
    IN  IF logType = "aws" THEN FormatAwsLogKeys(log)
        ELSE FormatGcpLog([log EXCEPT !.PROJECT_ID =
                 OrText(log.PROJECT_ID, OrText(log.projectId, options.PROJECT_ID))])

\* formatJsonLog(log, options) of formatters/index.ts
FormatJsonLog(log, options) ==
    LET logType == OrElse(options.LOG_TYPE, GetLogType)
    IN  IF logType = "aws" THEN FormatAwsLogKeys(log)
        ELSE FormatGcpLog([log EXCEPT !.PROJECT_ID =
                 OrText(log.PROJECT_ID, OrText(log.projectId, options.PROJECT_ID))])

\* formatters.level(label, number): the keys pino merges into every record
FormattersLevel(label) == OrElse(SEVERITY_LEVEL(label), "DEFAULT")

\* formatters.log(object) on the record pino built for a call at level label:
\* the GCP branch keeps all but pid, hostname, level and levelNumber
FormattersLog(label, awsFormat) ==
    IF awsFormat \/ GetLogType = "aws"
    THEN FormatAwsLogKeys([level |-> label, severity |-> FormattersLevel(label)])
    ELSE Shaped("gcp", FormattersLevel(label), <<>>)

\* formatJsonLog(log, options) of utils/formatters.ts: the record's own keys
\* are assigned over the GCP result, so its own severity wins there
FormatJsonLogUtils(log, options) ==
    LET logType == OrElse(log.LOG_TYPE, OrElse(options.LOG_TYPE, "gcp"))
        level == OrElse(log.level, "info")
        effectiveProjectId ==
            OrText(log.PROJECT_ID, OrText(log.projectId, options.PROJECT_ID))
    IN  IF logType = "aws"
        THEN Shaped("aws",
                    OrElse(SEVERITY_LEVEL(level), OrElse(log.severity, "INFO")),
                    <<>>)
        ELSE Shaped("gcp",
                    OrElse(log.severity, OrElse(SEVERITY_LEVEL(level), "DEFAULT")),
                    IF options.includeTrace /\ log.traceId # <<>>
                    THEN IF effectiveProjectId # <<>>
                         THEN TracePath(effectiveProjectId, log.traceId)
                         ELSE log.traceId
                    ELSE <<>>)

\* one call of formatJsonLog (formatters/index.ts); global is the value the
\* module variable has at the time of the call
CallFormatJsonLog(log, options) ==
    /\ shaped' = [call |-> "formatJsonLog", log |-> log, options |-> options,
                  global |-> globalLogType, result |-> FormatJsonLog(log, options)]
    /\ UNCHANGED <<rng, now, op, hdr, tc, drawn, wire, ctxs, heap, lastSet, out, rec, fmt, spans, maps, body, clean, again, globalLogType, env, services, given, serialized, app, emitted, objs, frames, ret, http, logs>>

\* one call of formatJsonLog (utils/formatters.ts)
CallFormatJsonLogUtils(log, options) ==
    /\ shaped' = [call |-> "formatJsonLogUtils", log |-> log,
                  options |-> options, global |-> globalLogType,
                  result |-> FormatJsonLogUtils(log, options)]
    /\ UNCHANGED <<rng, now, op, hdr, tc, drawn, wire, ctxs, heap, lastSet, out, rec, fmt, spans, maps, body, clean, again, globalLogType, env, services, given, serialized, app, emitted, objs, frames, ret, http, logs>>

\* one logger call at level label: pino runs formatters.level, then
\* formatters.log on the merged record
CallLogger(label, awsFormat) ==
    /\ shaped' = [call |-> "formatters.log",
                  log |-> [level |-> label, awsFormat |-> awsFormat],
                  options |-> NoOptions, global |-> globalLogType,
                  result |-> FormattersLog(label, awsFormat)]
    /\ UNCHANGED <<rng, now, op, hdr, tc, drawn, wire, ctxs, heap, lastSet, out, rec, fmt, spans, maps, body, clean, again, globalLogType, env, services, given, serialized, app, emitted, objs, frames, ret, http, logs>>

InitLogType ==
    /\ rng = 0
    /\ now = 1
    /\ CodecIdle /\ ContextsIdle /\ FormatterIdle /\ SpansIdle /\ SanitizerIdle /\ SerializersIdle /\ ModuleIdle /\ CyclesIdle /\ InterceptorIdle
    /\ globalLogType = "undefined"
    /\ env \in [LOG_TYPE : VendorModes, PROJECT_ID : {<<>>, Proj2}]
    /\ services = <<>>
    /\ shaped = NoShape

\* modules register their services; each behaviour shapes one record
NextLogType ==
    \/ \E logType \in VendorModes : NewBaseLoggerService([LOG_TYPE |-> logType])
    \/ \E i \in 1..Len(services) : Child(i)
    \/ \E log \in Entries, options \in FormatterOptions :
           shaped = NoShape /\ CallFormatJsonLog(log, options)
    \/ \E log \in Entries, options \in FormatterOptions :
           shaped = NoShape /\ CallFormatJsonLogUtils(log, options)
    \/ \E label \in LevelLabels \ {"undefined"}, awsFormat \in BOOLEAN :
           shaped = NoShape /\ CallLogger(label, awsFormat)

SpecLogType == InitLogType /\ [][NextLogType]_vars

\* C17: the process-wide default vendor mode is set at most once: after the
\* first setGlobalLogType no later step (another BaseLoggerService, child(), a
\* second module with another LOG_TYPE) changes its value.
C17_DefaultSetAtMostOnce ==
    [][globalLogType # "undefined" => globalLogType' = globalLogType]_vars

\* the process-wide configured default a call made with global finds
ConfiguredDefault(global) ==
    IF global # "undefined" THEN global
    ELSE IF env.LOG_TYPE # "undefined" THEN env.LOG_TYPE
    ELSE "gcp"

\* the schema a call is to use: the per-call override when one is given,
\* otherwise the configured default
ChosenSchema(call) ==
    IF call.options.LOG_TYPE # "undefined" THEN call.options.LOG_TYPE
    ELSE ConfiguredDefault(call.global)

SixLevel(level) ==
    CASE level \in {"trace", "debug"} -> "DEBUG"
      [] level = "info" -> "INFO"
      [] level = "warn" -> "WARNING"
      [] level = "error" -> "ERROR"
      [] level = "fatal" -> "CRITICAL"
      [] OTHER -> "DEFAULT"

\* the record went in with a level and, where it can have one, without a
\* severity of its own
LevelOnly(call) ==
    /\ call.log.level # "undefined"
    /\ call.call = "formatters.log" \/ call.log.severity = "undefined"

\* C19: the GCP shape and the AWS shape both carry a severity derived from the
\* record's level by the mapping trace->DEBUG, debug->DEBUG, info->INFO,
\* warn->WARNING, error->ERROR, fatal->CRITICAL, any unknown level->DEFAULT.
C19_SeverityBySixLevelMapping ==
    shaped.call # "none" /\ LevelOnly(shaped) =>
        shaped.result.severity = SixLevel(shaped.log.level)

\* the project id configured for a call: on the record or in the options
ConfiguredProjectId(call) ==
    OrText(call.log.PROJECT_ID, OrText(call.log.projectId, call.options.PROJECT_ID))

\* C20: in the GCP shape a record with a trace id has logging.googleapis.com/trace
\* equal to projects/{projectId}/traces/{traceId} when a project id is
\* configured and to the raw trace id otherwise; level error, projectId proj1
\* and traceId abc123 give severity ERROR and projects/proj1/traces/abc123.
C20_GcpTraceField ==
    /\ shaped.call \in {"formatJsonLog", "formatJsonLogUtils"}
    /\ shaped.result.shape = "gcp"
    /\ shaped.log.traceId # <<>>
    /\ shaped.options.includeTrace
    /\ env.PROJECT_ID = <<>>
    => /\ shaped.result.trace =
              IF ConfiguredProjectId(shaped) # <<>>
              THEN TracePath(ConfiguredProjectId(shaped), shaped.log.traceId)
              ELSE shaped.log.traceId
       /\ /\ shaped.log.level = "error"
          /\ shaped.log.severity = "undefined"
          /\ shaped.log.PROJECT_ID = <<>>
          /\ shaped.log.projectId = Proj1
          /\ shaped.log.traceId = Abc123
          => /\ shaped.result.severity = "ERROR"
             /\ shaped.result.trace = TracePath(Proj1, Abc123)

-----------------------------------------------------------------------------
(* Log records as objects: a record is a function from the keys it has to    *)
(* their values, so that destructuring, spread and delete are what the       *)
(* source makes them.  src/src/formatters/shared/field-cleaner.ts,           *)
(* src/unnamed/part_010 (formatters/aws), src/unnamed/part_006 and           *)
(* src/src/utils/aws-formatter.ts (utils/aws-formatter.ts, two revisions),   *)
(* src/src/utils/formatters.ts                                               *)

\* {} : the object without keys
EmptyObject == <<>>

\* key in o
Has(o, k) == k \in DOMAIN o

\* o[key], undefined for a key o does not have
Get(o, k) == IF k \in DOMAIN o THEN o[k] ELSE JsUndefined

\* o without the keys ks: delete o[k], and the ...rest of a destructuring
Omit(o, ks) == [k \in DOMAIN o \ ks |-> o[k]]

\* {...a, ...b}
Spread(a, b) ==
    [k \in DOMAIN a \cup DOMAIN b |-> IF k \in DOMAIN b THEN b[k] ELSE a[k]]

\* o[key] = v
Put(o, k, v) == Spread(o, [x \in {k} |-> v])

\* o[key] = v when cond holds
PutIf(cond, o, k, v) == IF cond THEN Put(o, k, v) ELSE o

Truthy(v) == ~Falsy(v)

\* a || b
Or(a, b) == IF Truthy(a) THEN a ELSE b

K_pid == <<"p", "i", "d">>
K_hostname == <<"h", "o", "s", "t", "n", "a", "m", "e">>
K_level == <<"l", "e", "v", "e", "l">>
K_levelNumber == <<"l", "e", "v", "e", "l", "N", "u", "m", "b", "e", "r">>
K_time == <<"t", "i", "m", "e">>
K_timestamp == <<"t", "i", "m", "e", "s", "t", "a", "m", "p">>
K_msg == <<"m", "s", "g">>
K_message == <<"m", "e", "s", "s", "a", "g", "e">>
K_severity == <<"s", "e", "v", "e", "r", "i", "t", "y">>
K_requestId == <<"r", "e", "q", "u", "e", "s", "t", "I", "d">>
K_service == <<"s", "e", "r", "v", "i", "c", "e">>
K_awsFormat == <<"_", "a", "w", "s", "F", "o", "r", "m", "a", "t">>
K_traceId == <<"t", "r", "a", "c", "e", "I", "d">>
K_spanId == <<"s", "p", "a", "n", "I", "d">>
K_method == <<"m", "e", "t", "h", "o", "d">>
K_url == <<"u", "r", "l">>
K_path == <<"p", "a", "t", "h">>
K_params == <<"p", "a", "r", "a", "m", "s">>
K_remoteAddress == <<"r", "e", "m", "o", "t", "e", "A", "d", "d", "r", "e", "s", "s">>
K_headers == <<"h", "e", "a", "d", "e", "r", "s">>
K_request_payload == <<"r", "e", "q", "u", "e", "s", "t", "_", "p", "a", "y", "l", "o", "a", "d">>
K_httpRequest == <<"h", "t", "t", "p", "R", "e", "q", "u", "e", "s", "t">>
K_request == <<"r", "e", "q", "u", "e", "s", "t">>
K_response == <<"r", "e", "s", "p", "o", "n", "s", "e">>
K_type == <<"t", "y", "p", "e">>
K_target_service == <<"t", "a", "r", "g", "e", "t", "_", "s", "e", "r", "v", "i", "c", "e">>
K_instance == <<"i", "n", "s", "t", "a", "n", "c", "e">>
K_region == <<"r", "e", "g", "i", "o", "n">>
K_account_id == <<"a", "c", "c", "o", "u", "n", "t", "_", "i", "d">>
K_graphql == <<"g", "r", "a", "p", "h", "q", "l">>
K_resource == <<"r", "e", "s", "o", "u", "r", "c", "e">>
K_LOG_TYPE == <<"L", "O", "G", "_", "T", "Y", "P", "E">>
K_logType == <<"l", "o", "g", "T", "y", "p", "e">>
K_PROJECT_ID == <<"P", "R", "O", "J", "E", "C", "T", "_", "I", "D">>
K_logLevel == <<"l", "o", "g", "L", "e", "v", "e", "l">>
K_aws == <<"a", "w", "s">>
K_body == <<"b", "o", "d", "y">>
K_trace == <<"t", "r", "a", "c", "e">>
K_sampled == <<"s", "a", "m", "p", "l", "e", "d">>
K_xAmznTraceId == <<"x", "-", "a", "m", "z", "n", "-", "t", "r", "a", "c", "e", "-", "i", "d">>
K_xCloudTraceContext == <<"x", "-", "c", "l", "o", "u", "d", "-", "t", "r", "a", "c", "e", "-", "c", "o", "n", "t", "e", "x", "t">>
K_tenant == <<"t", "e", "n", "a", "n", "t">>

\* 'logging.googleapis.com/'
GcpPrefix == <<"l", "o", "g", "g", "i", "n", "g", ".", "g", "o", "o", "g", "l", "e", "a", "p", "i", "s", ".", "c", "o", "m", "/">>

\* the seven vendor keys the source names one by one
GcpNamedKeys ==
    {GcpPrefix \o tail : tail \in {<<"t", "r", "a", "c", "e">>, <<"s", "p", "a", "n", "I", "d">>, <<"l", "o", "g", "N", "a", "m", "e">>, <<"l", "a", "b", "e", "l", "s">>,
                                   <<"s", "o", "u", "r", "c", "e", "L", "o", "c", "a", "t", "i", "o", "n">>, <<"o", "p", "e", "r", "a", "t", "i", "o", "n">>, <<"h", "t", "t", "p", "R", "e", "q", "u", "e", "s", "t">>}}

\* a vendor key of a later schema version
K_gcpInsertId == GcpPrefix \o <<"i", "n", "s", "e", "r", "t", "I", "d">>

\* new Date().toISOString() at clock reading c, told apart by its seconds
IsoNow(c) == JsString(Decimal(EpochSeconds(c)) \o <<"Z">>)

\* cleanGcpFields(obj)
CleanGcpFields(obj) ==
    Omit(obj, GcpNamedKeys \cup {K_resource, K_levelNumber, <<>>})

\* extractCommonFields(object): the groups system, context, request and other
\* are read back from object by Get; rest is what this operator returns
ExtractCommonFieldsRest(object) ==
    LET rest == Omit(object,
                     {K_pid, K_hostname, K_level, K_levelNumber, K_time,
                      K_timestamp, K_msg, K_severity, K_requestId, K_service,
                      K_awsFormat, K_traceId, K_spanId, K_method, K_url, K_path,
                      K_remoteAddress, K_headers, K_request_payload,
                      K_httpRequest, K_request, K_type, K_target_service})
        withPayload == PutIf(Truthy(Get(object, K_request_payload)), rest,
                             K_request_payload, Get(object, K_request_payload))
    IN  PutIf(Truthy(Get(object, K_httpRequest)), withPayload,
              K_httpRequest, Get(object, K_httpRequest))

\* v?.[key] on a value of the sanitizer's kind: undefined unless v is an object
\* that has the key
GetIn(v, k) ==
    IF v.t = "object" /\ \E i \in 1..Len(v.keys) : v.keys[i] = k
    THEN v.kids[CHOOSE i \in 1..Len(v.keys) : v.keys[i] = k]
    ELSE JsUndefined

\* parseInt(v) || v on a text of decimal digits or any other value
ParseIntOr(v) ==
    IF v.t = "string" /\ v.s # <<>> /\ (\A i \in 1..Len(v.s) : v.s[i] \in Digits)
          /\ (\E i \in 1..Len(v.s) : v.s[i] # "0")
    THEN JsNumber(v.s)
    ELSE v

\* the request object formatAwsLog builds from what it found
AwsRequest(requestMethod, requestUrl, clientIp, contentLength, userAgent) ==
    LET pairs == <<<<K_method, requestMethod>>, <<K_url, requestUrl>>,
                   <<<<"c", "l", "i", "e", "n", "t", "I", "p">>, clientIp>>,
                   <<<<"c", "o", "n", "t", "e", "n", "t", "L", "e", "n", "g", "t", "h">>, ParseIntOr(contentLength)>>,
                   <<<<"u", "s", "e", "r", "A", "g", "e", "n", "t">>, userAgent>>>>
        kept == SelectSeq(pairs, LAMBDA p : Truthy(p[2]))
    IN  JsObject([i \in 1..Len(kept) |-> kept[i][1]],
                 [i \in 1..Len(kept) |-> kept[i][2]])

\* result.aws of formatters/aws
AwsCloudwatch ==
    JsObject(<<<<"c", "l", "o", "u", "d", "w", "a", "t", "c", "h">>>>,
             <<JsObject(<<<<"l", "o", "g", "G", "r", "o", "u", "p">>, <<"l", "o", "g", "S", "t", "r", "e", "a", "m">>>>,
                        <<JsString(<<"/", "a", "w", "s", "/", "s", "e", "r", "v", "i", "c", "e", "/", "g", "a", "t", "e", "w", "a", "y", "-", "m", "a", "n", "a", "g", "e", "r">>),
                          JsString(<<"i", "n", "s", "t", "a", "n", "c", "e", "-", "1">>)>>)>>)

\* formatAwsLog(object) of formatters/aws at clock reading c, on a record that
\* is an object; a record of this section that has a traceId has no timestamp
\* or time of its own
FormatAwsLogObject(object, c) ==
    LET cleanRest == Omit(CleanGcpFields(ExtractCommonFieldsRest(object)),
                          {K_type, K_target_service})
        timestamp == Or(Get(object, K_timestamp), Or(Get(object, K_time), IsoNow(c)))
        r1 == PutIf(Has(object, K_level) /\ Get(object, K_level).t # "undefined",
                    EmptyObject, K_level, Get(object, K_level))
        r2 == Put(r1, K_timestamp, timestamp)
        r3 == PutIf(Truthy(Get(object, K_service)), r2, K_service,
                    Get(object, K_service))
        r4 == Spread(r3, cleanRest)
        traceId == Get(object, K_traceId)
        spanId == Get(object, K_spanId)
        r5 == IF Truthy(traceId)
              THEN Put(Put(r4, K_traceId,
                           JsString(ConvertToAwsXRayTraceId(traceId.s, 0, c))),
                       K_xAmznTraceId,
                       JsString(GenerateXAmznTraceId(traceId.s, spanId.s, TRUE, c)))
              ELSE r4
        r6 == PutIf(Truthy(spanId), r5, K_spanId, spanId)
        r7 == Put(r6, K_aws, AwsCloudwatch)
        httpRequest == Get(object, K_httpRequest)
        headers == Get(object, K_headers)
        requestMethod == Or(Get(object, K_method), GetIn(httpRequest, <<"r", "e", "q", "u", "e", "s", "t", "M", "e", "t", "h", "o", "d">>))
        requestUrl == Or(Get(object, K_url),
                         Or(Get(object, K_path), GetIn(httpRequest, <<"r", "e", "q", "u", "e", "s", "t", "U", "r", "l">>)))
        clientIp == Or(Get(object, K_remoteAddress), GetIn(httpRequest, <<"r", "e", "m", "o", "t", "e", "I", "p">>))
        contentLength == Or(GetIn(headers, <<"c", "o", "n", "t", "e", "n", "t", "-", "l", "e", "n", "g", "t", "h">>),
                            GetIn(httpRequest, <<"r", "e", "q", "u", "e", "s", "t", "S", "i", "z", "e">>))
        userAgent == Or(GetIn(headers, <<"u", "s", "e", "r", "-", "a", "g", "e", "n", "t">>), GetIn(httpRequest, <<"u", "s", "e", "r", "A", "g", "e", "n", "t">>))
        r8 == PutIf(\E v \in {requestMethod, requestUrl, clientIp, contentLength,
                              userAgent} : Truthy(v),
                    r7, K_request,
                    AwsRequest(requestMethod, requestUrl, clientIp, contentLength,
                               userAgent))
        r9 == IF Truthy(Get(object, K_request_payload))
              THEN Put(r8, K_body, Get(object, K_request_payload))
              ELSE PutIf(Truthy(GetIn(httpRequest, <<"r", "e", "q", "u", "e", "s", "t", "B", "o", "d", "y">>)), r8, K_body,
                         GetIn(httpRequest, <<"r", "e", "q", "u", "e", "s", "t", "B", "o", "d", "y">>))
    IN  Omit(r9, {K_pid, K_hostname, K_levelNumber, K_time, K_msg, K_severity,
                  K_requestId, K_httpRequest, K_request_payload, K_method, K_url,
                  K_path, K_remoteAddress, K_headers})

\* formatAwsLog(object) of utils/aws-formatter.ts, the revision that spreads
\* what is left of the record
UtilsFormatAwsLog(object) ==
    LET rest == Omit(object, {K_pid, K_hostname, K_level, K_levelNumber, K_time,
                              K_timestamp, K_msg, K_severity, K_requestId,
                              K_service, K_awsFormat})
        cleanRest == Omit(rest, GcpNamedKeys \cup {K_resource, K_levelNumber})
        timestamp == Get(object, K_timestamp)
        time == Get(object, K_time)
        r1 == IF Truthy(timestamp) THEN Put(EmptyObject, K_timestamp, timestamp)
              ELSE PutIf(Truthy(time), EmptyObject, K_timestamp, time)
        r2 == PutIf(Get(object, K_pid).t # "undefined", r1, K_pid, Get(object, K_pid))
        r3 == PutIf(Truthy(Get(object, K_hostname)), r2, K_hostname,
                    Get(object, K_hostname))
        r4 == PutIf(Truthy(Get(object, K_severity)), r3, K_severity,
                    Get(object, K_severity))
        r5 == PutIf(Get(object, K_level).t # "undefined", r4, K_level,
                    Get(object, K_level))
    IN  Omit(Spread(r5, cleanRest), {K_levelNumber})

\* convertToAwsXRayTraceId(traceId) of utils/aws-formatter.ts on a text, at
\* clock reading c
UtilsConvertToAwsXRayTraceId(traceId, c) ==
    IF IsXRayIdAnyCase(traceId) THEN traceId
    ELSE IF StartsWith(traceId, <<"R", "o", "o", "t", "=">>) THEN Substring(traceId, 5)
    ELSE <<"1", "-">> \o HexTimestamp(EpochSeconds(c)) \o <<"-">>
            \o ToLowerCase(PadStart(Slice0(StripNonHex(traceId), 24), 24, "0"))

\* generateXAmznTraceId(traceId, spanId) of utils/aws-formatter.ts on the
\* converted trace id
UtilsGenerateXAmznTraceId(awsTraceId, spanId) ==
    <<"R", "o", "o", "t", "=">> \o awsTraceId
        \o (IF spanId # <<>> THEN <<";", "P", "a", "r", "e", "n", "t", "=">> \o SpanIdHex(spanId) ELSE <<>>)
        \o <<";", "S", "a", "m", "p", "l", "e", "d", "=", "1">>

\* severity by pino level number, as formatAwsLog of utils/aws-formatter.ts
\* looks it up
LevelToSeverity(level) ==
    CASE level = JsNumber(<<"1", "0">>) -> JsString(<<"D", "E", "B", "U", "G">>)
      [] level = JsNumber(<<"2", "0">>) -> JsString(<<"D", "E", "B", "U", "G">>)
      [] level = JsNumber(<<"3", "0">>) -> JsString(<<"I", "N", "F", "O">>)
      [] level = JsNumber(<<"4", "0">>) -> JsString(<<"W", "A", "R", "N", "I", "N", "G">>)
      [] level = JsNumber(<<"5", "0">>) -> JsString(<<"E", "R", "R", "O", "R">>)
      [] level = JsNumber(<<"6", "0">>) -> JsString(<<"C", "R", "I", "T", "I", "C", "A", "L">>)
      [] OTHER -> JsString(<<"I", "N", "F", "O">>)

\* the keys formatAwsLog of utils/aws-formatter.ts copies from what is left of
\* the record
ExtraFields(rest, result) ==
    {key \in DOMAIN rest :
        /\ ~StartsWith(key, GcpPrefix)
        /\ key \notin {K_resource, K_levelNumber, K_time, K_msg, K_message,
                       K_httpRequest, K_LOG_TYPE, K_logType}
        /\ key \notin DOMAIN result
        /\ key \in {K_response, K_graphql, K_message, K_logLevel}}

\* the message formatAwsLog of utils/aws-formatter.ts emits; null for none
EffectiveMessage(msg, message) ==
    IF msg.t = "string" /\ Len(msg.s) > 0 THEN msg
    ELSE IF message.t = "string" /\ Len(message.s) > 0 THEN message
    ELSE JsNull

\* formatAwsLog(object) of utils/aws-formatter.ts, the revision that keeps an
\* allow-list, at clock reading c; k is the draw randomBytes makes when the
\* record has no requestId.  A record of this section has no httpRequest with
\* a requestUrl, whose pathname the source would parse.
UtilsFormatAwsLogNext(object, c, k) ==
    LET logType == Or(Get(object, K_LOG_TYPE),
                      Or(Get(object, K_logType),
                         IF env.LOG_TYPE # "undefined"
                         THEN JsString(IF env.LOG_TYPE = "aws" THEN <<"a", "w", "s">> ELSE <<"g", "c", "p">>)
                         ELSE JsString(<<"g", "c", "p">>)))
        rest == Omit(object,
                     {K_pid, K_hostname, K_level, K_levelNumber, K_time,
                      K_timestamp, K_msg, K_message, K_severity, K_requestId,
                      K_service, K_traceId, K_spanId, K_method, K_url, K_path,
                      K_params, K_remoteAddress, K_headers, K_request_payload,
                      K_httpRequest, K_response, K_type, K_target_service,
                      K_instance, K_region, K_account_id, K_graphql})
        g(key) == Get(object, key)
        httpRequest == g(K_httpRequest)
        r1 == Put(EmptyObject, K_severity,
                  IF Truthy(g(K_severity)) THEN g(K_severity)
                  ELSE IF g(K_level).t # "undefined" THEN LevelToSeverity(g(K_level))
                  ELSE JsString(<<"I", "N", "F", "O">>))
        r2 == PutIf(g(K_level).t # "undefined", r1, K_level, g(K_level))
        r3 == Put(r2, K_timestamp, Or(g(K_timestamp), Or(g(K_time), IsoNow(c))))
        r4 == Put(r3, K_type, Or(g(K_type), JsString(<<"c", "o", "n", "s", "o", "l", "e", "_", "l", "o", "g">>)))
        effectiveMessage == EffectiveMessage(g(K_msg), g(K_message))
        r5 == PutIf(Truthy(effectiveMessage), r4, K_message, effectiveMessage)
        r6 == PutIf(Truthy(g(K_service)), r5, K_service, g(K_service))
        r7 == PutIf(g(K_pid).t # "undefined", r6, K_pid, g(K_pid))
        r8 == PutIf(Truthy(g(K_hostname)), r7, K_hostname, g(K_hostname))
        r9 == Put(r8, K_requestId,
                  IF Truthy(g(K_requestId)) THEN g(K_requestId)
                  ELSE JsString(Slice0(RandomHex(k, 32), 8)))
        awsTraceId == UtilsConvertToAwsXRayTraceId(g(K_traceId).s, c)
        xAmzn == JsString(UtilsGenerateXAmznTraceId(awsTraceId, g(K_spanId).s))
        r10 == IF Truthy(g(K_traceId))
               THEN Spread(r9, [x \in {K_traceId, K_xAmznTraceId,
                                       K_xCloudTraceContext, K_sampled} |->
                                   CASE x = K_traceId -> JsString(awsTraceId)
                                     [] x = K_sampled -> JsTrue
                                     [] OTHER -> xAmzn])
               ELSE r9
        r11 == PutIf(Truthy(g(K_spanId)), r10, K_spanId,
                     JsString(SpanIdHex(g(K_spanId).s)))
        requestMethod == Or(g(K_method), GetIn(httpRequest, <<"r", "e", "q", "u", "e", "s", "t", "M", "e", "t", "h", "o", "d">>))
        requestUrl == Or(g(K_url), Or(g(K_path), GetIn(httpRequest, <<"r", "e", "q", "u", "e", "s", "t", "U", "r", "l">>)))
        requestPath == Or(g(K_path), GetIn(httpRequest, <<"r", "e", "q", "u", "e", "s", "t", "U", "r", "l">>))
        requestRemoteAddress == Or(g(K_remoteAddress), GetIn(httpRequest, <<"r", "e", "m", "o", "t", "e", "I", "p">>))
        requestHeaders == Or(g(K_headers), GetIn(httpRequest, <<"h", "e", "a", "d", "e", "r", "s">>))
        requestPayload == Or(g(K_request_payload), GetIn(httpRequest, <<"r", "e", "q", "u", "e", "s", "t", "B", "o", "d", "y">>))
        r12 == PutIf(Truthy(requestMethod), r11, K_method, requestMethod)
        r13 == PutIf(Truthy(requestUrl), r12, K_url, requestUrl)
        r14 == PutIf(Truthy(requestPath), r13, K_path, requestPath)
        r15 == PutIf(g(K_params).t # "undefined", r14, K_params, g(K_params))
        r16 == PutIf(Truthy(requestRemoteAddress), r15, K_remoteAddress,
                     requestRemoteAddress)
        r17 == PutIf(Truthy(requestHeaders), r16, K_headers, requestHeaders)
        r18 == PutIf(Truthy(requestPayload), r17, K_request_payload, requestPayload)
        r19 == PutIf(Truthy(g(K_target_service)), r18, K_target_service,
                     g(K_target_service))
        r20 == PutIf(Truthy(g(K_response)), r19, K_response, g(K_response))
        r21 == IF Truthy(g(K_graphql)) THEN Put(r20, K_graphql, g(K_graphql))
               ELSE PutIf(Truthy(GetIn(httpRequest, <<"g", "r", "a", "p", "h", "q", "l">>)), r20, K_graphql,
                          GetIn(httpRequest, <<"g", "r", "a", "p", "h", "q", "l">>))
        r22 == Spread(r21, [key \in ExtraFields(rest, r21) |-> rest[key]])
    IN  IF logType # JsString(<<"a", "w", "s">>) THEN object
        ELSE Omit(r22, {key \in DOMAIN r22 : StartsWith(key, GcpPrefix)}
                           \cup {K_time})

\* getEffectiveLoggerName(logSource)
GetEffectiveLoggerName(logSource) ==
    IF logSource = JsString(<<"e", "x", "c", "e", "p", "t", "i", "o", "n">>) THEN <<"e", "r", "r", "o", "r", "-", "l", "o", "g", "g", "e", "r">>
    ELSE IF logSource = JsString(<<"c", "o", "n", "s", "o", "l", "e">>) THEN <<"c", "o", "n", "s", "o", "l", "e", "-", "l", "o", "g", "g", "e", "r">>
    ELSE <<"a", "p", "i", "-", "l", "o", "g", "g", "e", "r">>

\* getCloudLogName(projectId, loggerName)
GetCloudLogName(projectId, loggerName) ==
    IF Falsy(projectId) THEN JsString(loggerName)
    ELSE JsString(<<"p", "r", "o", "j", "e", "c", "t", "s", "/">> \o projectId.s \o <<"/", "l", "o", "g", "s", "/">> \o loggerName)

\* SEVERITY_LEVEL[level] on a value; undefined for a level the table lacks
SeverityOf(level) ==
    CASE level = JsString(<<"t", "r", "a", "c", "e">>) -> JsString(<<"D", "E", "B", "U", "G">>)
      [] level = JsString(<<"d", "e", "b", "u", "g">>) -> JsString(<<"D", "E", "B", "U", "G">>)
      [] level = JsString(<<"i", "n", "f", "o">>) -> JsString(<<"I", "N", "F", "O">>)
      [] level = JsString(<<"w", "a", "r", "n">>) -> JsString(<<"W", "A", "R", "N", "I", "N", "G">>)
      [] level = JsString(<<"e", "r", "r", "o", "r">>) -> JsString(<<"E", "R", "R", "O", "R">>)
      [] level = JsString(<<"f", "a", "t", "a", "l">>) -> JsString(<<"C", "R", "I", "T", "I", "C", "A", "L">>)
      [] OTHER -> JsUndefined

\* formatJsonLog(log, options) of utils/formatters.ts at clock reading c, on a
\* record that is an object; options carries LOG_TYPE, PROJECT_ID and
\* includeTrace, and includeResource is left at its default
UtilsFormatJsonLog(log, options, c) ==
    LET g(key) == Get(log, key)
        configLogType == IF options.LOG_TYPE = "undefined" THEN JsString(<<"g", "c", "p">>)
                         ELSE JsString(IF options.LOG_TYPE = "aws" THEN <<"a", "w", "s">>
                                       ELSE <<"g", "c", "p">>)
        logType == Or(g(K_LOG_TYPE), Or(g(K_logType), configLogType))
        httpReq == g(K_httpRequest)
        headers == g(K_headers)
        time == Or(g(K_timestamp), Or(g(K_time), IsoNow(c)))
        a1 == Spread(EmptyObject,
                     [x \in {K_severity, K_timestamp, K_service} |->
                         CASE x = K_severity ->
                                  Or(SeverityOf(Or(g(K_level), JsString(<<"i", "n", "f", "o">>))),
                                     Or(g(K_severity), JsString(<<"I", "N", "F", "O">>)))
                           [] x = K_timestamp -> time
                           [] OTHER -> Or(g(K_service), JsString(<<"a", "p", "i">>))])
        spanId16 == SpanIdHex(g(K_spanId).s)
        fullTraceId == <<"1", "-">> \o HexTimestamp(EpochSeconds(c)) \o <<"-">>
                          \o ToLowerCase(PadStart(Slice0(StripNonHex(g(K_traceId).s),
                                                         24), 24, "0"))
        a2 == IF options.includeTrace /\ Truthy(g(K_traceId))
              THEN Put(Put(a1, K_trace,
                           JsObject(<<<<"t", "r", "a", "c", "e", "_", "i", "d">>, <<"s", "e", "g", "m", "e", "n", "t", "_", "i", "d">>, <<"s", "a", "m", "p", "l", "e", "d">>>>,
                                    <<JsString(fullTraceId), JsString(spanId16),
                                      JsTrue>>)),
                       K_xAmznTraceId,
                       JsString(<<"R", "o", "o", "t", "=">> \o fullTraceId \o <<";", "P", "a", "r", "e", "n", "t", "=">> \o spanId16
                                    \o <<";", "S", "a", "m", "p", "l", "e", "d", "=", "1">>))
              ELSE a1
        a3 == Put(a2, K_request,
                  AwsRequest(Or(g(K_method), GetIn(httpReq, <<"r", "e", "q", "u", "e", "s", "t", "M", "e", "t", "h", "o", "d">>)),
                             Or(g(K_url), Or(g(K_path), GetIn(httpReq, <<"r", "e", "q", "u", "e", "s", "t", "U", "r", "l">>))),
                             Or(g(K_remoteAddress), GetIn(httpReq, <<"r", "e", "m", "o", "t", "e", "I", "p">>)),
                             Or(GetIn(headers, <<"c", "o", "n", "t", "e", "n", "t", "-", "l", "e", "n", "g", "t", "h">>),
                                GetIn(httpReq, <<"r", "e", "q", "u", "e", "s", "t", "S", "i", "z", "e">>)),
                             Or(GetIn(headers, <<"u", "s", "e", "r", "-", "a", "g", "e", "n", "t">>),
                                GetIn(httpReq, <<"u", "s", "e", "r", "A", "g", "e", "n", "t">>))))
        a4 == IF Truthy(g(K_request_payload))
              THEN Put(a3, K_body, g(K_request_payload))
              ELSE PutIf(Truthy(GetIn(httpReq, <<"r", "e", "q", "u", "e", "s", "t", "B", "o", "d", "y">>)), a3, K_body,
                         GetIn(httpReq, <<"r", "e", "q", "u", "e", "s", "t", "B", "o", "d", "y">>))
        a5 == Put(a4, K_aws,
                  JsObject(<<<<"c", "l", "o", "u", "d", "w", "a", "t", "c", "h">>>>,
                           <<JsObject(<<<<"l", "o", "g", "_", "g", "r", "o", "u", "p">>, <<"l", "o", "g", "_", "s", "t", "r", "e", "a", "m">>>>,
                                      <<JsString(<<"/", "a", "w", "s", "/", "s", "e", "r", "v", "i", "c", "e", "/">> \o a4[K_service].s),
                                        Or(g(K_instance), JsString(<<"i", "n", "s", "t", "a", "n", "c", "e", "-", "1">>))>>)>>))
        removeKeys == {K_pid, K_hostname, K_time, K_msg, K_level, K_levelNumber,
                       K_PROJECT_ID, K_LOG_TYPE, K_logType, K_request_payload,
                       K_method, K_url, K_path, K_headers, K_remoteAddress, K_type,
                       K_target_service, K_httpRequest, K_traceId, K_spanId}
                          \cup GcpNamedKeys
        effectiveProjectId ==
            Or(g(K_PROJECT_ID), Or(g(<<"p", "r", "o", "j", "e", "c", "t", "I", "d">>), JsString(options.PROJECT_ID)))
        loggerName == GetEffectiveLoggerName(g(<<"l", "o", "g", "S", "o", "u", "r", "c", "e">>))
        f1 == Put(EmptyObject, K_severity,
                  Or(SeverityOf(Or(g(K_level), JsString(<<"i", "n", "f", "o">>))),
                     JsString(<<"D", "E", "F", "A", "U", "L", "T">>)))
        f2 == IF options.includeTrace /\ Truthy(g(K_traceId))
              THEN PutIf(Truthy(g(K_spanId)),
                         Put(f1, GcpPrefix \o <<"t", "r", "a", "c", "e">>,
                             IF Truthy(effectiveProjectId)
                             THEN JsString(TracePath(effectiveProjectId.s,
                                                     g(K_traceId).s))
                             ELSE g(K_traceId)),
                         GcpPrefix \o <<"s", "p", "a", "n", "I", "d">>, g(K_spanId))
              ELSE f1
        f3 == Put(Put(f2, GcpPrefix \o <<"l", "o", "g", "N", "a", "m", "e">>,
                      GetCloudLogName(effectiveProjectId, loggerName)),
                  GcpPrefix \o <<"l", "a", "b", "e", "l", "s">>,
                  JsObject(<<K_requestId, K_service, <<"l", "o", "g", "N", "a", "m", "e">>>>,
                           <<g(K_requestId), g(K_service),
                             GetCloudLogName(effectiveProjectId, loggerName)>>))
        f4 == PutIf(Truthy(g(<<"s", "o", "u", "r", "c", "e", "L", "o", "c", "a", "t", "i", "o", "n">>)), f3, GcpPrefix \o <<"s", "o", "u", "r", "c", "e", "L", "o", "c", "a", "t", "i", "o", "n">>,
                    g(<<"s", "o", "u", "r", "c", "e", "L", "o", "c", "a", "t", "i", "o", "n">>))
        f5 == PutIf(Truthy(g(<<"o", "p", "e", "r", "a", "t", "i", "o", "n">>)), f4, GcpPrefix \o <<"o", "p", "e", "r", "a", "t", "i", "o", "n">>,
                    g(<<"o", "p", "e", "r", "a", "t", "i", "o", "n">>))
        f6 == PutIf(Truthy(httpReq), f5, GcpPrefix \o <<"h", "t", "t", "p", "R", "e", "q", "u", "e", "s", "t">>, httpReq)
    IN  IF logType = JsString(<<"a", "w", "s">>) THEN Omit(a5, removeKeys)
        ELSE Omit(Spread(f6, log),
                  {K_pid, K_hostname, K_requestId, K_service, K_traceId, K_spanId,
                   <<"s", "o", "u", "r", "c", "e", "L", "o", "c", "a", "t", "i", "o", "n">>, <<"o", "p", "e", "r", "a", "t", "i", "o", "n">>, K_LOG_TYPE, K_logType})

\* The records of this section: every choice of keys from the pool below, each
\* key with one of its values.  msg and message are texts, empty or not, or a
\* number; tenant is a key no formatter knows, logLevel one the allow-list
\* names, insertId a vendor key the source does not name.
PoolValues(key) ==
    CASE key = K_msg -> {JsString(<<>>), JsString(<<"h", "e", "l", "l", "o">>), JsNumber(<<"7">>)}
      [] key = K_message -> {JsString(<<>>), JsString(<<"w", "o", "r", "l", "d">>)}
      [] key = K_level -> {JsNumber(<<"3", "0">>)}
      [] key = K_LOG_TYPE -> {JsString(<<"a", "w", "s">>)}
      [] key = K_requestId -> {JsString(<<"r", "1">>)}
      [] key = K_tenant -> {JsString(<<"a", "c", "m", "e">>)}
      [] key = K_logLevel -> {JsString(<<"v", "e", "r", "b", "o", "s", "e">>)}
      [] key = GcpPrefix \o <<"t", "r", "a", "c", "e">> -> {JsString(<<"t", "1">>)}
      [] OTHER -> {JsString(<<"i", "1">>)}

PoolKeys ==
    {K_msg, K_message, K_level, K_LOG_TYPE, K_requestId, K_tenant, K_logLevel,
     GcpPrefix \o <<"t", "r", "a", "c", "e">>, K_gcpInsertId}

RECURSIVE ObjectsOver(_)
\* the objects whose keys are among keys
ObjectsOver(keys) ==
    IF keys = {} THEN {EmptyObject}
    ELSE LET k == CHOOSE x \in keys : TRUE
             fewer == ObjectsOver(keys \ {k})
         IN  fewer \cup {Put(o, k, v) : o \in fewer, v \in PoolValues(k)}

Objects == ObjectsOver(PoolKeys)

\* formatAwsLog(object) of formatters/aws
CallFormatAwsLogObject(object) ==
    /\ rec = NoRecord
    /\ rec' = object
    /\ fmt' = [call |-> "formatters/aws", result |-> FormatAwsLogObject(object, now)]
    /\ UNCHANGED <<rng, now, op, hdr, tc, drawn, wire, ctxs, heap, lastSet, out, spans, maps, body, clean, again, globalLogType, env, services, shaped, given, serialized, app, emitted, objs, frames, ret, http, logs>>

\* formatAwsLog(object) of utils/aws-formatter.ts, the spreading revision
CallUtilsFormatAwsLog(object) ==
    /\ rec = NoRecord
    /\ rec' = object
    /\ fmt' = [call |-> "utils/aws-formatter", result |-> UtilsFormatAwsLog(object)]
    /\ UNCHANGED <<rng, now, op, hdr, tc, drawn, wire, ctxs, heap, lastSet, out, spans, maps, body, clean, again, globalLogType, env, services, shaped, given, serialized, app, emitted, objs, frames, ret, http, logs>>

\* formatAwsLog(object) of utils/aws-formatter.ts, the allow-list revision
CallUtilsFormatAwsLogNext(object) ==
    /\ rec = NoRecord
    /\ rec' = object
    /\ fmt' = [call |-> "utils/aws-formatter allow-list",
               result |-> UtilsFormatAwsLogNext(object, now, rng)]
    /\ rng' = IF Truthy(Get(object, K_requestId)) THEN rng ELSE rng + 1
    /\ UNCHANGED <<now, op, hdr, tc, drawn, wire, ctxs, heap, lastSet, out, spans, maps, body, clean, again, globalLogType, env, services, shaped, given, serialized, app, emitted, objs, frames, ret, http, logs>>

\* formatJsonLog(log, options) of utils/formatters.ts
CallUtilsFormatJsonLog(log, options) ==
    /\ rec = NoRecord
    /\ rec' = log
    /\ fmt' = [call |-> "utils/formatters", options |-> options,
               result |-> UtilsFormatJsonLog(log, options, now)]
    /\ UNCHANGED <<rng, now, op, hdr, tc, drawn, wire, ctxs, heap, lastSet, out, spans, maps, body, clean, again, globalLogType, env, services, shaped, given, serialized, app, emitted, objs, frames, ret, http, logs>>

InitObjects ==
    /\ rng = 0
    /\ now \in 1..Len(Epochs)
    /\ CodecIdle /\ ContextsIdle /\ FormatterIdle /\ SpansIdle /\ SanitizerIdle /\ SerializersIdle /\ ModuleIdle /\ CyclesIdle /\ InterceptorIdle
    /\ globalLogType = "undefined"
    /\ env \in [LOG_TYPE : VendorModes, PROJECT_ID : {<<>>}]
    /\ services = <<>>
    /\ shaped = NoShape

NextObjects ==
    \/ \E object \in Objects : CallFormatAwsLogObject(object)
    \/ \E object \in Objects : CallUtilsFormatAwsLog(object)
    \/ \E object \in Objects : CallUtilsFormatAwsLogNext(object)
    \/ \E log \in Objects, logType \in VendorModes :
           CallUtilsFormatJsonLog(log, [NoOptions EXCEPT !.LOG_TYPE = logType])

SpecObjects == InitObjects /\ [][NextObjects]_vars

\* the record went through an AWS shaper: the two formatAwsLog that shape
\* whatever they get, the allow-list revision when the record or the
\* environment says 'aws', and the AWS branch of formatJsonLog
AwsShaped ==
    \/ fmt.call \in {"formatters/aws", "utils/aws-formatter"}
    \/ /\ fmt.call = "utils/aws-formatter allow-list"
       /\ \/ Get(rec, K_LOG_TYPE) = JsString(<<"a", "w", "s">>)
          \/ ~Has(rec, K_LOG_TYPE) /\ env.LOG_TYPE = "aws"
    \/ /\ fmt.call = "utils/formatters"
       /\ \/ Get(rec, K_LOG_TYPE) = JsString(<<"a", "w", "s">>)
          \/ ~Has(rec, K_LOG_TYPE) /\ fmt.options.LOG_TYPE = "aws"

\* the record went through the GCP branch of formatJsonLog
GcpShaped == fmt.call = "utils/formatters" /\ ~AwsShaped

\* C21: in both output shapes every input field that is not a recognised or
\* mapped key appears in the output under the same key with the same value.
C21_UnknownFieldsPassThrough ==
    (AwsShaped \/ GcpShaped) /\ Has(rec, K_tenant) =>
        Has(fmt.result, K_tenant) /\ fmt.result[K_tenant] = rec[K_tenant]

\* C22: the shaped record's message is the input's msg when that is a
\* non-empty text, else the input's message when that is a non-empty text,
\* else there is no message; never an empty message, never a non-empty msg lost.
C22_MessageFromMsgThenMessage ==
    AwsShaped /\ fmt.call \in {"formatters/aws", "utils/aws-formatter allow-list"} =>
        LET msg == Get(rec, K_msg)
            message == Get(rec, K_message)
        IN  IF msg.t = "string" /\ msg.s # <<>>
            THEN Get(fmt.result, K_message) = msg
            ELSE IF message.t = "string" /\ message.s # <<>>
            THEN Get(fmt.result, K_message) = message
            ELSE ~Has(fmt.result, K_message)

\* C23: the AWS shape never has a key that starts with logging.googleapis.com/,
\* whatever keys the input carries, the vendor keys the source does not name
\* included.
C23_NoGcpKeyInAwsShape ==
    AwsShaped => \A key \in DOMAIN fmt.result : ~StartsWith(key, GcpPrefix)

-----------------------------------------------------------------------------
(* The pino serializers: src/unnamed/part_007 (utils/serializers.ts).  An     *)
(* evaluation either returns a value or throws; a property whose getter      *)
(* throws is the value JsThrows in the object that has it.                   *)

STRING_RESPONSE == 1024

JsThrows == [t |-> "throws", s |-> <<"g", "e", "t", "t", "e", "r", " ", "f", "a", "i", "l", "e", "d">>, keys |-> <<>>, kids |-> <<>>]

Ok(v) == [threw |-> FALSE, v |-> v]

\* throw new Error(message)
Thrown(message) == [threw |-> TRUE, v |-> JsString(message)]

\* o[key]: a TypeError on null and undefined, the getter's error where the
\* getter throws
Read(o, k) ==
    IF o.t \in {"undefined", "null"} THEN Thrown(<<"C", "a", "n", "n", "o", "t", " ", "r", "e", "a", "d", " ", "p", "r", "o", "p", "e", "r", "t", "i", "e", "s">>)
    ELSE IF GetIn(o, k) = JsThrows THEN Thrown(JsThrows.s)
    ELSE Ok(GetIn(o, k))

\* o?.[key]
OptRead(o, k) == IF o.t \in {"undefined", "null"} THEN Ok(JsUndefined) ELSE Read(o, k)

\* the first evaluation of steps that threw, else the last one
FirstThrown(steps) ==
    IF \E i \in 1..Len(steps) : steps[i].threw
    THEN steps[CHOOSE i \in 1..Len(steps) :
                   steps[i].threw /\ \A j \in 1..(i - 1) : ~steps[j].threw]
    ELSE steps[Len(steps)]

RECURSIVE ReadsThrower(_, _)
\* whether sanitizeBody(v, sensitiveFields, depth) reads a property whose
\* getter throws: Object.entries and slice read what the call walks over
ReadsThrower(v, depth) ==
    /\ v.t \in {"array", "object"}
    /\ depth < JSON_DEPTH
    /\ LET kids == IF v.t = "array" THEN ArraySlice(v.kids, 0, ARRAY_LENGTH)
                   ELSE v.kids
       IN  \E i \in 1..Len(kids) :
               kids[i] = JsThrows \/ ReadsThrower(kids[i], depth + 1)

\* sanitizeBody(obj) as an evaluation
SanitizeBodyEval(obj) ==
    IF ReadsThrower(obj, 0) THEN Thrown(JsThrows.s)
    ELSE Ok(SanitizeBody(obj, DEFAULT_SENSITIVE_FIELDS, 0))

\* String(v) for a text, a number, a boolean or a plain object
JsToString(v) ==
    IF v.t \in {"string", "number", "boolean"} THEN v.s
    ELSE IF v.t = "object" THEN <<"[", "o", "b", "j", "e", "c", "t", " ", "O", "b", "j", "e", "c", "t", "]">>
    ELSE IF v.t = "null" THEN <<"n", "u", "l", "l">>
    ELSE <<"u", "n", "d", "e", "f", "i", "n", "e", "d">>

\* s.length > STRING_RESPONSE ? `${s.slice(0, STRING_RESPONSE)}... [TRUNCATED]` : s
Truncated(s) ==
    IF Len(s) > STRING_RESPONSE THEN Slice0(s, STRING_RESPONSE) \o <<".", ".", ".", " ", "[", "T", "R", "U", "N", "C", "A", "T", "E", "D", "]">>
    ELSE s

\* s.split(sep)[0]
SplitFirst(s, sep) == IF IndexOf(s, sep) = 0 THEN s ELSE SubSeq(s, 1, IndexOf(s, sep) - 1)

\* s.split(sep)[1]; undefined when sep does not occur
SplitSecond(s, sep) ==
    IF IndexOf(s, sep) = 0 THEN JsUndefined
    ELSE JsString(SplitFirst(Substring(s, IndexOf(s, sep) - 1 + Len(sep)), sep))

\* the record handleRequestBody returns for a multipart body, without the
\* payload
MultipartMetadataOnly(payload, size, boundary) ==
    JsObject(<<K_message, <<"s", "i", "z", "e">>, <<"b", "o", "u", "n", "d", "a", "r", "y">>>>,
             <<JsString(<<"[", "M", "U", "L", "T", "I", "P", "A", "R", "T", " ", "F", "O", "R", "M", " ", "D", "A", "T", "A", "]">>), size, boundary>>)

\* the record handleRequestBody returns for a multipart body
Multipart(payload, size, boundary) ==
    JsObject(<<<<"p", "a", "y", "l", "o", "a", "d">>, K_message, <<"s", "i", "z", "e">>, <<"b", "o", "u", "n", "d", "a", "r", "y">>>>,
             <<payload, JsString(<<"[", "M", "U", "L", "T", "I", "P", "A", "R", "T", " ", "F", "O", "R", "M", " ", "D", "A", "T", "A", "]">>), size, boundary>>)

\* the body of handleRequestBody, given what it read and the evaluation of
\* sanitizeBody(payload)
RequestBodyOutcome(parsedBody, reqBody, payload, contentType, sanitized, headers) ==
    LET ct == contentType.s
        size == Read(headers.v, <<"c", "o", "n", "t", "e", "n", "t", "-", "l", "e", "n", "g", "t", "h">>)
        inner ==
            IF contentType.t # "string" THEN Thrown(<<"i", "n", "c", "l", "u", "d", "e", "s", " ", "i", "s", " ", "n", "o", "t", " ", "a", " ", "f", "u", "n", "c", "t", "i", "o", "n">>)
            ELSE IF Includes(ct, <<"a", "p", "p", "l", "i", "c", "a", "t", "i", "o", "n", "/", "j", "s", "o", "n">>)
                    \/ Includes(ct, <<"a", "p", "p", "l", "i", "c", "a", "t", "i", "o", "n", "/", "x", "-", "w", "w", "w", "-", "f", "o", "r", "m", "-", "u", "r", "l", "e", "n", "c", "o", "d", "e", "d">>)
            THEN sanitized
            ELSE IF Includes(ct, <<"m", "u", "l", "t", "i", "p", "a", "r", "t", "/", "f", "o", "r", "m", "-", "d", "a", "t", "a">>)
            THEN IF sanitized.threw THEN sanitized
                 ELSE IF headers.threw THEN headers
                 ELSE IF size.threw THEN size
                 ELSE Ok(Multipart(sanitized.v, size.v, SplitSecond(ct, <<"b", "o", "u", "n", "d", "a", "r", "y", "=">>)))
            ELSE IF Includes(ct, <<"t", "e", "x", "t", "/">>)
            THEN Ok(JsString(Truncated(JsToString(payload))))
            ELSE Ok(JsString(<<"[">> \o SplitFirst(ct, <<";">>) \o <<" ", "C", "O", "N", "T", "E", "N", "T", "]">>))
    IN  IF parsedBody.threw THEN parsedBody
        ELSE IF Falsy(parsedBody.v) /\ reqBody.threw THEN reqBody
        ELSE IF Falsy(payload) THEN Ok(JsUndefined)
        ELSE IF inner.threw THEN Ok(JsString(<<"[", "B", "O", "D", "Y", " ", "S", "E", "R", "I", "A", "L", "I", "Z", "A", "T", "I", "O", "N", " ", "E", "R", "R", "O", "R", "]">>))
        ELSE inner

\* handleRequestBody(req, contentType) as an evaluation.  contentType is a
\* text, or a number, on which includes is not a function.
HandleRequestBody(req, contentType) ==
    LET parsedBody == Read(req, <<"p", "a", "r", "s", "e", "d", "B", "o", "d", "y">>)
        reqBody == Read(req, K_body)
        payload == IF Truthy(parsedBody.v) THEN parsedBody.v ELSE reqBody.v
    IN  RequestBodyOutcome(parsedBody, reqBody, payload, contentType,
                           SanitizeBodyEval(payload), Read(req, K_headers))

DEFAULT_SENSITIVE_HEADERS ==
    {<<"a", "u", "t", "h", "o", "r", "i", "z", "a", "t", "i", "o", "n">>, <<"c", "o", "o", "k", "i", "e">>, <<"x", "-", "a", "p", "i", "-", "k", "e", "y">>, <<"t", "o", "k", "e", "n">>, <<"p", "a", "s", "s", "w", "o", "r", "d">>}

\* the keys Object.entries(v) walks over: an array's are its indices
EntryKeys(v) ==
    IF v.t = "array" THEN [i \in 1..Len(v.kids) |-> Decimal(i - 1)] ELSE v.keys

\* sanitizeHeaders(headers) as an evaluation
SanitizeHeaders(headers) ==
    IF Falsy(headers) \/ ~TypeofObject(headers) THEN Ok(JsObject(<<>>, <<>>))
    ELSE IF \E i \in 1..Len(headers.kids) : headers.kids[i] = JsThrows
    THEN Thrown(JsThrows.s)
    ELSE Ok(JsObject(EntryKeys(headers),
                     [i \in 1..Len(headers.kids) |->
                         IF ToLowerCase(EntryKeys(headers)[i]) \in DEFAULT_SENSITIVE_HEADERS
                         THEN JsString(REDACTED)
                         ELSE headers.kids[i]]))

\* an object literal from <<key, value>> pairs, those with keep = FALSE left out
Literal(entries) ==
    LET kept == SelectSeq(entries, LAMBDA e : e[3])
    IN  JsObject([i \in 1..Len(kept) |-> kept[i][1]],
                 [i \in 1..Len(kept) |-> kept[i][2]])

\* Object.keys(v).length > 0
HasKeys(v) ==
    \/ v.t \in {"object"} /\ Len(v.keys) > 0
    \/ v.t = "array" /\ Len(v.kids) > 0
    \/ v.t = "string" /\ Len(v.s) > 0

\* the fields serializers.req keeps of one uploaded file
FileInfo(file) ==
    IF file.t \in {"undefined", "null"} THEN Thrown(<<"C", "a", "n", "n", "o", "t", " ", "r", "e", "a", "d", " ", "p", "r", "o", "p", "e", "r", "t", "i", "e", "s">>)
    ELSE IF \E k \in {<<"f", "i", "e", "l", "d", "n", "a", "m", "e">>, <<"o", "r", "i", "g", "i", "n", "a", "l", "n", "a", "m", "e">>, <<"e", "n", "c", "o", "d", "i", "n", "g">>, <<"m", "i", "m", "e", "t", "y", "p", "e">>, <<"s", "i", "z", "e">>} :
                GetIn(file, k) = JsThrows
    THEN Thrown(JsThrows.s)
    ELSE Ok(JsObject(<<<<"f", "i", "e", "l", "d", "n", "a", "m", "e">>, <<"o", "r", "i", "g", "i", "n", "a", "l", "n", "a", "m", "e">>, <<"e", "n", "c", "o", "d", "i", "n", "g">>, <<"m", "i", "m", "e", "t", "y", "p", "e">>, <<"s", "i", "z", "e">>>>,
                     <<GetIn(file, <<"f", "i", "e", "l", "d", "n", "a", "m", "e">>), GetIn(file, <<"o", "r", "i", "g", "i", "n", "a", "l", "n", "a", "m", "e">>),
                       GetIn(file, <<"e", "n", "c", "o", "d", "i", "n", "g">>), GetIn(file, <<"m", "i", "m", "e", "t", "y", "p", "e">>),
                       GetIn(file, <<"s", "i", "z", "e">>)>>))

\* the file uploads of serializers.req, lines 94-103: undefined when there
\* are none
RequestFiles(req) ==
    LET files == Read(req, <<"f", "i", "l", "e", "s">>)
        file == Read(req, <<"f", "i", "l", "e">>)
        many == files.v.t = "array" /\ Len(files.v.kids) > 0
        one == Truthy(file.v) /\ HasKeys(file.v)
        list == IF Truthy(files.v) THEN (IF files.v.t = "array" THEN files.v.kids ELSE <<>>)
                ELSE <<file.v>>
        infos == [i \in 1..Len(list) |-> FileInfo(list[i])]
    IN  IF files.threw THEN files
        ELSE IF ~many /\ file.threw THEN file
        ELSE IF ~many /\ ~one THEN Ok(JsUndefined)
        ELSE IF Truthy(files.v) /\ files.v.t # "array"
        THEN Thrown(<<"f", "i", "l", "e", "s", ".", "m", "a", "p", " ", "i", "s", " ", "n", "o", "t", " ", "a", " ", "f", "u", "n", "c", "t", "i", "o", "n">>)
        ELSE IF infos # <<>> /\ FirstThrown(infos).threw THEN FirstThrown(infos)
        ELSE Ok(JsArray([i \in 1..Len(infos) |-> infos[i].v]))

\* what the try block of serializers.req comes to, given the evaluations of
\* its steps in order: the first error thrown, else the record
RequestOutcome(steps) ==
    IF FirstThrown(steps).threw THEN FirstThrown(steps)
    ELSE Ok(Literal(<<
             <<K_method, steps[3].v, TRUE>>,
             <<K_url, steps[5].v, TRUE>>,
             <<K_path, steps[6].v, TRUE>>,
             <<K_params, steps[7].v, TRUE>>,
             <<K_headers, steps[8].v, TRUE>>,
             <<K_remoteAddress, Or(steps[11].v, JsString(<<"u", "n", "k", "n", "o", "w", "n">>)), TRUE>>,
             <<<<"q", "u", "e", "r", "y", "_", "p", "a", "r", "a", "m", "s">>, steps[13].v, Truthy(steps[12].v) /\ HasKeys(steps[12].v)>>,
             <<K_request_payload, steps[14].v, Truthy(steps[14].v)>>,
             <<<<"f", "i", "l", "e", "s">>, steps[15].v, steps[15].v.t # "undefined">> >>))

\* the try block of serializers.req, lines 69-105
SerializeRequest(req) ==
    LET headers == Read(req, K_headers)
        contentType == OptRead(headers.v, <<"c", "o", "n", "t", "e", "n", "t", "-", "t", "y", "p", "e">>)
        method == Read(req, K_method)
        originalUrl == Read(req, <<"o", "r", "i", "g", "i", "n", "a", "l", "U", "r", "l">>)
        url == IF Truthy(originalUrl.v) THEN originalUrl ELSE Read(req, K_url)
        path == Read(req, K_path)
        params == Read(req, K_params)
        cleanHeaders == SanitizeHeaders(headers.v)
        ip == Read(req, <<"i", "p">>)
        socket == IF Truthy(ip.v) THEN ip ELSE Read(req, <<"s", "o", "c", "k", "e", "t">>)
        remoteAddress == IF Truthy(ip.v) THEN ip
                         ELSE OptRead(socket.v, K_remoteAddress)
        query == Read(req, <<"q", "u", "e", "r", "y">>)
        queryParams == IF Truthy(query.v) /\ HasKeys(query.v)
                       THEN SanitizeBodyEval(query.v) ELSE Ok(JsUndefined)
        requestPayload == HandleRequestBody(req, Or(contentType.v, JsString(<<>>)))
        files == RequestFiles(req)
    IN  RequestOutcome(<<headers, contentType, method, originalUrl, url, path, params, cleanHeaders, ip, socket, remoteAddress, query, queryParams, requestPayload, files>>)

\* the record the catch block of serializers.req returns
RequestFallback(err) ==
    JsObject(<<K_method, K_url, K_headers, K_remoteAddress, <<"e", "r", "r", "o", "r">>, K_message>>,
             <<JsString(<<"u", "n", "k", "n", "o", "w", "n">>), JsString(<<"u", "n", "k", "n", "o", "w", "n">>), JsObject(<<>>, <<>>),
               JsString(<<"u", "n", "k", "n", "o", "w", "n">>), JsString(<<"F", "a", "i", "l", "e", "d", " ", "t", "o", " ", "s", "e", "r", "i", "a", "l", "i", "z", "e", " ", "r", "e", "q", "u", "e", "s", "t">>), err>>)

\* try { ... } catch (err) { return fallback } without the catch
Uncaught(evaluation, fallback) == evaluation

\* try { ... } catch (err) { return fallback }: fallback is the record for
\* the error's message
Catch(evaluation, fallback) ==
    IF evaluation.threw THEN Ok(fallback) ELSE evaluation

\* the catch block of serializers.req around the evaluation of its try block
CaughtRequest(evaluation) == Catch(evaluation, RequestFallback(evaluation.v))

\* serializers.req(req)
SerializersReq(req) ==
    IF Falsy(req) THEN Ok(req)
    ELSE CaughtRequest(SerializeRequest(req))

\* a Buffer
JsBuffer == [t |-> "buffer", s |-> <<"b", "y", "t", "e", "s">>, keys |-> <<>>, kids |-> <<>>]

\* what the try block of serializers.err comes to, given the evaluations of
\* its steps in order
ErrorOutcome(steps) ==
    IF FirstThrown(steps).threw THEN FirstThrown(steps)
    ELSE Ok(Literal(<<
             <<K_type, steps[2].v, TRUE>>,
             <<K_message, steps[3].v, TRUE>>,
             <<<<"c", "o", "d", "e">>, steps[4].v, TRUE>>,
             <<<<"s", "t", "a", "c", "k">>, steps[5].v, TRUE>>,
             <<<<"s", "t", "a", "t", "u", "s", "C", "o", "d", "e">>, steps[7].v, TRUE>>,
             <<<<"d", "e", "t", "a", "i", "l", "s">>, steps[8].v, Truthy(steps[8].v)>>,
             <<<<"c", "o", "n", "t", "e", "x", "t">>, steps[10].v, Truthy(steps[9].v)>> >>))

\* the try block of serializers.err, lines 182-192
SerializeError(err) ==
    LET type == Read(err, K_type)
        name == IF Truthy(type.v) THEN type ELSE Read(err, <<"n", "a", "m", "e">>)
        message == Read(err, K_message)
        code == Read(err, <<"c", "o", "d", "e">>)
        stack == Read(err, <<"s", "t", "a", "c", "k">>)
        statusCode == Read(err, <<"s", "t", "a", "t", "u", "s", "C", "o", "d", "e">>)
        status == IF Truthy(statusCode.v) THEN statusCode ELSE Read(err, <<"s", "t", "a", "t", "u", "s">>)
        details == Read(err, <<"d", "e", "t", "a", "i", "l", "s">>)
        context == Read(err, <<"c", "o", "n", "t", "e", "x", "t">>)
        cleanContext == IF Truthy(context.v) THEN SanitizeBodyEval(context.v)
                        ELSE Ok(JsUndefined)
    IN  ErrorOutcome(<<type, name, message, code, stack, statusCode, status, details, context, cleanContext>>)

\* the record the catch block of serializers.err returns
ErrorFallback(e) ==
    JsObject(<<K_type, K_message>>, <<JsString(<<"S", "e", "r", "i", "a", "l", "i", "z", "a", "t", "i", "o", "n", "E", "r", "r", "o", "r">>), e>>)

\* the catch block of serializers.err around the evaluation of its try block
CaughtError(evaluation) == Catch(evaluation, ErrorFallback(evaluation.v))

\* serializers.err(err)
SerializersErr(err) ==
    IF Falsy(err) THEN Ok(err)
    ELSE CaughtError(SerializeError(err))

\* getContentType(res): res.getHeaders is a function when res has the key,
\* whose value is what the call returns (JsThrows when the call throws)
GetContentType(res) ==
    IF Falsy(res) THEN Ok(JsString(<<>>))
    ELSE IF GetIn(res, <<"g", "e", "t", "H", "e", "a", "d", "e", "r", "s">>).t = "undefined" THEN Ok(JsString(<<>>))
    ELSE IF Read(res, <<"g", "e", "t", "H", "e", "a", "d", "e", "r", "s">>).threw THEN Read(res, <<"g", "e", "t", "H", "e", "a", "d", "e", "r", "s">>)
    ELSE IF Read(GetIn(res, <<"g", "e", "t", "H", "e", "a", "d", "e", "r", "s">>), <<"c", "o", "n", "t", "e", "n", "t", "-", "t", "y", "p", "e">>).threw
    THEN Read(GetIn(res, <<"g", "e", "t", "H", "e", "a", "d", "e", "r", "s">>), <<"c", "o", "n", "t", "e", "n", "t", "-", "t", "y", "p", "e">>)
    ELSE Ok(Or(GetIn(GetIn(res, <<"g", "e", "t", "H", "e", "a", "d", "e", "r", "s">>), <<"c", "o", "n", "t", "e", "n", "t", "-", "t", "y", "p", "e">>), JsString(<<>>)))

\* serialized.body of serializers.res, lines 135-158, as an evaluation
ResponseBody(content, contentType) ==
    LET ct == contentType.s
    IN  IF content.t = "null" THEN Ok(JsString(<<"[", "N", "O", " ", "C", "O", "N", "T", "E", "N", "T", "]">>))
        ELSE IF content.t = "string" /\ content.s = <<>> THEN Ok(JsString(<<"[", "E", "M", "P", "T", "Y", " ", "S", "T", "R", "I", "N", "G", "]">>))
        ELSE IF contentType.t # "string" THEN Thrown(<<"i", "n", "c", "l", "u", "d", "e", "s", " ", "i", "s", " ", "n", "o", "t", " ", "a", " ", "f", "u", "n", "c", "t", "i", "o", "n">>)
        ELSE IF Includes(ct, <<"a", "p", "p", "l", "i", "c", "a", "t", "i", "o", "n", "/", "j", "s", "o", "n">>) THEN SanitizeBodyEval(content)
        ELSE IF Includes(ct, <<"t", "e", "x", "t", "/">>) \/ Includes(ct, <<"h", "t", "m", "l">>) \/ content.t = "string"
        THEN Ok(JsString(Truncated(JsToString(content))))
        ELSE IF Includes(ct, <<"i", "m", "a", "g", "e", "/">>) THEN Ok(JsString(<<"[", "I", "M", "A", "G", "E", " ", "C", "O", "N", "T", "E", "N", "T", "]">>))
        ELSE IF content = JsBuffer THEN Ok(JsString(<<"[", "B", "U", "F", "F", "E", "R", " ", "C", "O", "N", "T", "E", "N", "T", "]">>))
        ELSE IF TypeofObject(content) THEN SanitizeBodyEval(content)
        ELSE Ok(JsString(JsToString(content)))

\* what the try block of serializers.res comes to, given the evaluations of
\* its steps in order
ResponseOutcome(steps) ==
    IF FirstThrown(steps).threw THEN FirstThrown(steps)
    ELSE Ok(Literal(<<
             <<<<"s", "t", "a", "t", "u", "s", "C", "o", "d", "e">>, steps[3].v, TRUE>>,
             <<<<"r", "e", "s", "p", "o", "n", "s", "e", "T", "i", "m", "e">>, Or(steps[4].v, JsString(<<"N", "/", "A">>)), TRUE>>,
             <<K_body, steps[7].v, steps[6].v.t # "undefined">>,
             <<<<"e", "r", "r", "o", "r">>, steps[9].v, Truthy(steps[8].v)>> >>))

\* the try block of serializers.res, lines 125-164
SerializeResponse(res) ==
    LET rawRead == Read(res, <<"r", "a", "w">>)
        raw == IF Truthy(rawRead.v) THEN rawRead.v ELSE res
        contentType == GetContentType(raw)
        statusCode == Read(raw, <<"s", "t", "a", "t", "u", "s", "C", "o", "d", "e">>)
        responseTime == Read(res, <<"r", "e", "s", "p", "o", "n", "s", "e", "T", "i", "m", "e">>)
        ownBody == Read(res, K_body)
        rawBody == IF ownBody.v.t \in {"undefined", "null"} THEN Read(raw, K_body)
                   ELSE ownBody
        shown == IF rawBody.v.t = "undefined" THEN Ok(JsUndefined)
                 ELSE ResponseBody(rawBody.v, contentType.v)
        error == Read(res, <<"e", "r", "r", "o", "r">>)
        shownError == IF Truthy(error.v) THEN SerializersErr(error.v)
                      ELSE Ok(JsUndefined)
    IN  ResponseOutcome(<<rawRead, contentType, statusCode, responseTime, ownBody, rawBody, shown, error, shownError>>)

\* the record the catch block of serializers.res returns
ResponseFallback(err) ==
    JsObject(<<<<"s", "t", "a", "t", "u", "s", "C", "o", "d", "e">>, <<"r", "e", "s", "p", "o", "n", "s", "e", "T", "i", "m", "e">>, <<"e", "r", "r", "o", "r">>, K_message>>,
             <<JsNumber(<<"5", "0", "0">>), JsString(<<"N", "/", "A">>),
               JsString(<<"F", "a", "i", "l", "e", "d", " ", "t", "o", " ", "s", "e", "r", "i", "a", "l", "i", "z", "e", " ", "r", "e", "s", "p", "o", "n", "s", "e">>), err>>)

\* the catch block of serializers.res around the evaluation of its try block
CaughtResponse(evaluation) == Catch(evaluation, ResponseFallback(evaluation.v))

\* serializers.res(res)
SerializersRes(res) ==
    IF Falsy(res) THEN Ok(res)
    ELSE CaughtResponse(SerializeResponse(res))

\* The values handed to the serializers.  A request is built from a content
\* type and a body, and may have one property whose getter throws; null and
\* undefined stand for a missing argument.
ContentTypes ==
    {JsString(<<"a", "p", "p", "l", "i", "c", "a", "t", "i", "o", "n", "/", "j", "s", "o", "n">>),
     JsString(<<"m", "u", "l", "t", "i", "p", "a", "r", "t", "/", "f", "o", "r", "m", "-", "d", "a", "t", "a", ";", " ", "b", "o", "u", "n", "d", "a", "r", "y", "=", "x", "y", "z">>),
     JsString(<<"t", "e", "x", "t", "/", "p", "l", "a", "i", "n">>),
     JsString(<<"a", "p", "p", "l", "i", "c", "a", "t", "i", "o", "n", "/", "o", "c", "t", "e", "t", "-", "s", "t", "r", "e", "a", "m">>),
     JsNumber(<<"7">>),
     JsUndefined}

\* an object with a property whose getter throws
Booby == JsObject(<<KeyName, <<"t", "r", "a", "p">>>>, <<Ann, JsThrows>>)

Payloads ==
    {JsUndefined, ScenarioBody, JsString(Stringify(ScenarioBody)),
     JsString(<<"p", "l", "a", "i", "n", " ", "t", "e", "x", "t">>), Booby, JsObject(<<<<"i", "n", "n", "e", "r">>>>, <<Booby>>)}

RequestKeys ==
    <<K_headers, K_method, <<"o", "r", "i", "g", "i", "n", "a", "l", "U", "r", "l">>, K_url, K_path, K_params, <<"i", "p">>,
      <<"s", "o", "c", "k", "e", "t">>, <<"q", "u", "e", "r", "y">>, <<"p", "a", "r", "s", "e", "d", "B", "o", "d", "y">>, K_body, <<"f", "i", "l", "e", "s">>, <<"f", "i", "l", "e">>>>

\* a request with that content type and body
Request(contentType, payload) ==
    JsObject(RequestKeys,
             <<JsObject(<<<<"c", "o", "n", "t", "e", "n", "t", "-", "t", "y", "p", "e">>, <<"c", "o", "n", "t", "e", "n", "t", "-", "l", "e", "n", "g", "t", "h">>, <<"a", "u", "t", "h", "o", "r", "i", "z", "a", "t", "i", "o", "n">>>>,
                        <<contentType, JsString(<<"4", "2">>), JsString(<<"B", "e", "a", "r", "e", "r", " ", "a", "b", "c">>)>>),
               JsString(<<"P", "O", "S", "T">>), JsUndefined, JsString(<<"/", "u", "s", "e", "r", "s", "?", "x", "=", "1">>),
               JsString(<<"/", "u", "s", "e", "r", "s">>), JsObject(<<>>, <<>>), JsUndefined,
               JsObject(<<K_remoteAddress>>, <<JsString(<<"1", "0", ".", "0", ".", "0", ".", "1">>)>>),
               JsObject(<<<<"x">>>>, <<JsString(<<"1">>)>>), JsUndefined, payload,
               JsUndefined, JsUndefined>>)

\* the request with one property replaced
With(o, k, v) ==
    [o EXCEPT !.kids = [i \in 1..Len(o.kids) |-> IF o.keys[i] = k THEN v ELSE o.kids[i]]]

Requests2 ==
    {JsNull, JsUndefined}
        \cup {Request(ct, p) : ct \in ContentTypes, p \in Payloads}
        \cup {With(Request(ct, ScenarioBody), RequestKeys[i], v) :
                  ct \in ContentTypes, i \in 1..Len(RequestKeys),
                  v \in {JsThrows, JsNull, Booby, JsArray(<<JsNull>>),
                         JsArray(<<JsObject(<<<<"f", "i", "e", "l", "d", "n", "a", "m", "e">>>>, <<JsString(<<"a", "v", "a", "t", "a", "r">>)>>)>>)}}

ErrorKeys ==
    <<K_type, <<"n", "a", "m", "e">>, K_message, <<"c", "o", "d", "e">>, <<"s", "t", "a", "c", "k">>, <<"s", "t", "a", "t", "u", "s", "C", "o", "d", "e">>, <<"s", "t", "a", "t", "u", "s">>,
      <<"d", "e", "t", "a", "i", "l", "s">>, <<"c", "o", "n", "t", "e", "x", "t">>>>

AnError ==
    JsObject(ErrorKeys,
             <<JsUndefined, JsString(<<"E", "r", "r", "o", "r">>), JsString(<<"b", "o", "o", "m">>), JsUndefined,
               JsString(<<"E", "r", "r", "o", "r", ":", " ", "b", "o", "o", "m", " ", "a", "t", " ", "x">>), JsUndefined, JsNumber(<<"5", "0", "2">>),
               JsUndefined, ScenarioBody>>)

Errors ==
    {JsNull, JsUndefined, AnError, JsString(<<"b", "o", "o", "m">>)}
        \cup {With(AnError, ErrorKeys[i], v) :
                  i \in 1..Len(ErrorKeys), v \in {JsThrows, Booby}}

ResponseKeys == <<<<"r", "a", "w">>, <<"g", "e", "t", "H", "e", "a", "d", "e", "r", "s">>, <<"s", "t", "a", "t", "u", "s", "C", "o", "d", "e">>, <<"r", "e", "s", "p", "o", "n", "s", "e", "T", "i", "m", "e">>, K_body, <<"e", "r", "r", "o", "r">>>>

\* a response whose getHeaders() returns that content type
Response(contentType, content) ==
    JsObject(ResponseKeys,
             <<JsUndefined, JsObject(<<<<"c", "o", "n", "t", "e", "n", "t", "-", "t", "y", "p", "e">>>>, <<contentType>>),
               JsNumber(<<"2", "0", "0">>), JsNumber(<<"1", "2">>), content, JsUndefined>>)

Responses ==
    {JsNull, JsUndefined}
        \cup {Response(ct, p) : ct \in ContentTypes,
                                p \in Payloads \cup {JsNull, JsString(<<>>), JsBuffer,
                                                     JsNumber(<<"5">>)}}
        \cup {With(Response(JsString(<<"a", "p", "p", "l", "i", "c", "a", "t", "i", "o", "n", "/", "j", "s", "o", "n">>), ScenarioBody),
                   ResponseKeys[i], v) :
                  i \in 1..Len(ResponseKeys),
                  v \in {JsThrows, Booby, AnError, With(AnError, K_message, JsThrows),
                         Response(JsString(<<"t", "e", "x", "t", "/", "h", "t", "m", "l">>), JsString(<<"<", "p", ">", "h", "i", "<", "/", "p", ">">>))}}

\* serializers.req(req)
CallSerializersReq(req) ==
    /\ given = NoCall
    /\ given' = [call |-> "req", v |-> req]
    /\ serialized' = SerializersReq(req)
    /\ UNCHANGED <<rng, now, op, hdr, tc, drawn, wire, ctxs, heap, lastSet, out, rec, fmt, spans, maps, body, clean, again, globalLogType, env, services, shaped, app, emitted, objs, frames, ret, http, logs>>

\* serializers.res(res)
CallSerializersRes(res) ==
    /\ given = NoCall
    /\ given' = [call |-> "res", v |-> res]
    /\ serialized' = SerializersRes(res)
    /\ UNCHANGED <<rng, now, op, hdr, tc, drawn, wire, ctxs, heap, lastSet, out, rec, fmt, spans, maps, body, clean, again, globalLogType, env, services, shaped, app, emitted, objs, frames, ret, http, logs>>

\* serializers.err(err)
CallSerializersErr(err) ==
    /\ given = NoCall
    /\ given' = [call |-> "err", v |-> err]
    /\ serialized' = SerializersErr(err)
    /\ UNCHANGED <<rng, now, op, hdr, tc, drawn, wire, ctxs, heap, lastSet, out, rec, fmt, spans, maps, body, clean, again, globalLogType, env, services, shaped, app, emitted, objs, frames, ret, http, logs>>

InitSerializers ==
    /\ rng = 0
    /\ now = 1
    /\ CodecIdle /\ ContextsIdle /\ FormatterIdle /\ SpansIdle /\ SanitizerIdle /\ ModuleIdle /\ CyclesIdle /\ InterceptorIdle
    /\ LogTypeIdle /\ SerializersIdle

NextSerializers ==
    \/ \E req \in Requests2 : CallSerializersReq(req)
    \/ \E res \in Responses : CallSerializersRes(res)
    \/ \E err \in Errors : CallSerializersErr(err)

SpecSerializers == InitSerializers /\ [][NextSerializers]_vars

\* the content type of the request is a text that names multipart/form-data
IsMultipart(req) ==
    /\ GetIn(req, K_headers).t = "object"
    /\ GetIn(GetIn(req, K_headers), <<"c", "o", "n", "t", "e", "n", "t", "-", "t", "y", "p", "e">>).t = "string"
    /\ Includes(GetIn(GetIn(req, K_headers), <<"c", "o", "n", "t", "e", "n", "t", "-", "t", "y", "p", "e">>).s, <<"m", "u", "l", "t", "i", "p", "a", "r", "t", "/", "f", "o", "r", "m", "-", "d", "a", "t", "a">>)

\* C24: serializers.req describes a multipart/form-data body by metadata only
\* (marker, size, boundary): no field of the submitted payload, sanitized or
\* not, is in the serialized request_payload.
C24_MultipartMetadataOnly ==
    given.call = "req" /\ Truthy(given.v) /\ IsMultipart(given.v) =>
        LET payload == GetIn(serialized.v, K_request_payload)
        IN  payload.t = "object" =>
                \A i \in 1..Len(payload.keys) :
                    payload.keys[i] \in {K_message, <<"s", "i", "z", "e">>, <<"b", "o", "u", "n", "d", "a", "r", "y">>}

\* an internal failure: the try block of the serializer called threw
InternalFailure ==
    /\ Truthy(given.v)
    /\ \/ given.call = "req" /\ SerializeRequest(given.v).threw
       \/ given.call = "res" /\ SerializeResponse(given.v).threw
       \/ given.call = "err" /\ SerializeError(given.v).threw

\* the fallback record of the serializer called, for some error message
IsFallback(v) ==
    \/ given.call = "req" /\ \E m \in {v.kids[Len(v.kids)]} : v = RequestFallback(m)
    \/ given.call = "res" /\ \E m \in {v.kids[Len(v.kids)]} : v = ResponseFallback(m)
    \/ given.call = "err" /\ \E m \in {v.kids[Len(v.kids)]} : v = ErrorFallback(m)

-----------------------------------------------------------------------------
(* LoggerModule.forRoot / forFeature and the BaseLoggerService constructor *)

MaxEmitted == 2

\* a JS number: NaN or a non-negative integer
NaN == [nan |-> TRUE, n |-> 0]
Num(n) == [nan |-> FALSE, n |-> n]

RECURSIVE DecimalValue(_)
\* the value of a text of decimal digits
DecimalValue(s) ==
    IF s = <<>> THEN 0
    ELSE DecimalValue(SubSeq(s, 1, Len(s) - 1)) * 10 + HexVal(s[Len(s)])

\* Number(text): white space is trimmed, the empty text is 0, a text of
\* decimal digits is its value, any other text of the pool is NaN
StringToNumber(text) ==
    LET t == Trim(text)
    IN  IF t = <<>> THEN Num(0)
        ELSE IF \A i \in 1..Len(t) : t[i] \in Digits THEN Num(DecimalValue(t))
        ELSE NaN

\* Number(v)
Number(v) ==
    IF v.t = "number" THEN Num(DecimalValue(v.s))
    ELSE IF v.t = "string" THEN StringToNumber(v.s)
    ELSE IF v.t = "null" THEN Num(0)
    ELSE NaN

\* a ?? b
Coalesce(a, b) == IF a.t \in {"undefined", "null"} THEN b ELSE a

\* forRoot: shouldAttachNestLogging
ShouldAttachNestLogging(config, envRegister) ==
    LET logRegister == Number(Coalesce(Coalesce(config.LOG_REGISTER, envRegister), JsNumber(<<"5">>)))
        isBasicMode == ~logRegister.nan /\ logRegister.n = 1
        isSilentMode == ~logRegister.nan /\ logRegister.n = 0
    IN  ~(isBasicMode \/ isSilentMode)

\* resolveLogLevel
ResolveLogLevel(level) ==
    LET normalized == IF level.t \notin {"undefined", "null"}
                      THEN ToLowerCase(Trim(JsToString(level)))
                      ELSE <<>>
    IN  IF normalized = <<>> THEN <<"i", "n", "f", "o">> ELSE normalized

\* resolveLogRegisterValue
ResolveLogRegisterValue(register) ==
    LET normalized == IF register.t \notin {"undefined", "null"}
                      THEN ToLowerCase(Trim(JsToString(register)))
                      ELSE <<>>
        numericLevel == StringToNumber(normalized)
    IN  IF normalized = <<>> THEN 5
        ELSE IF ~numericLevel.nan /\ numericLevel.n >= 0 /\ numericLevel.n <= 5
        THEN numericLevel.n
        ELSE 5

\* resolveLogRegisterToLevel
ResolveLogRegisterToLevel(register, fallbackLevel) ==
    IF register = 0 THEN <<"s", "i", "l", "e", "n", "t">> ELSE fallbackLevel

\* createLogger: the raw logger for register 1, else pino at the effective
\* level with base.loggerName
CreateLogger(config, envRegister) ==
    LET logRegister == ResolveLogRegisterValue(
                           Coalesce(Coalesce(config.LOG_REGISTER, envRegister), JsString(<<"5">>)))
    IN  IF logRegister = 1
        THEN [logger |-> "raw", register |-> logRegister, level |-> <<"t", "r", "a", "c", "e">>,
              loggerName |-> JsUndefined]
        ELSE [logger |-> "pino", register |-> logRegister,
              level |-> ResolveLogRegisterToLevel(logRegister, ResolveLogLevel(config.LOG_LEVEL)),
              loggerName |-> config.SERVICE_NAME]

\* getLogMetadata: nothing outside a request context
GetLogMetadata(config, inContext) ==
    IF ~inContext THEN EmptyObject
    ELSE Put(Put(EmptyObject, K_requestId, JsString(<<"r", "1">>)), K_service, config.SERVICE_NAME)

\* formatLog on a text message
FormatLog(config, message, inContext) ==
    Spread(Put(EmptyObject, K_msg, message), GetLogMetadata(config, inContext))

(* Inputs *)
RegisterTexts == {<<>>, <<" ">>, <<"0">>, <<"1">>, <<"2">>, <<"3">>, <<"4">>, <<"5">>, <<" ", "1", " ">>, <<"7">>, <<"a", "b", "c">>}
RegisterValues ==
    {JsUndefined, JsNumber(<<"0">>), JsNumber(<<"1">>), JsNumber(<<"5">>)}
        \cup {JsString(t) : t \in RegisterTexts}
EnvRegisters == {JsUndefined, JsString(<<>>), JsString(<<"0">>), JsString(<<"1">>), JsString(<<"3">>)}
ServiceNames == {JsUndefined, JsString(<<"s", "v", "c">>)}
LogLevels == {JsUndefined, JsString(<<"d", "e", "b", "u", "g">>)}
LoggerConfigs ==
    [SERVICE_NAME : ServiceNames, LOG_REGISTER : RegisterValues, LOG_LEVEL : LogLevels]

\* LoggerModule.forRoot(config)
ForRoot(config) ==
    /\ app.module = NoModule
    /\ app' = [app EXCEPT !.module =
                  [kind |-> "forRoot", config |-> config,
                   attached |-> ShouldAttachNestLogging(config, app.envRegister)]]
    /\ UNCHANGED <<rng, now, op, hdr, tc, drawn, wire, ctxs, heap, lastSet, out, rec, fmt, spans, maps, body, clean, again, globalLogType, env, services, shaped, given, serialized, emitted, objs, frames, ret, http, logs>>

\* LoggerModule.forFeature(config): the logger service alone
ForFeature(config) ==
    /\ app.module = NoModule
    /\ app' = [app EXCEPT !.module =
                  [kind |-> "forFeature", config |-> config, attached |-> FALSE]]
    /\ UNCHANGED <<rng, now, op, hdr, tc, drawn, wire, ctxs, heap, lastSet, out, rec, fmt, spans, maps, body, clean, again, globalLogType, env, services, shaped, given, serialized, emitted, objs, frames, ret, http, logs>>

\* new BaseLoggerService(config, asyncStorage)
NewService ==
    /\ app.module # NoModule
    /\ app.service = NoService
    /\ app' = [app EXCEPT !.service = CreateLogger(app.module.config, app.envRegister)]
    /\ UNCHANGED <<rng, now, op, hdr, tc, drawn, wire, ctxs, heap, lastSet, out, rec, fmt, spans, maps, body, clean, again, globalLogType, env, services, shaped, given, serialized, emitted, objs, frames, ret, http, logs>>

\* info(message): the record goes to the logger, which writes it unless its
\* level is silent
Info(message, inContext) ==
    /\ app.service # NoService
    /\ Len(emitted) < MaxEmitted
    /\ emitted' = IF app.service.level = <<"s", "i", "l", "e", "n", "t">> THEN emitted
                  ELSE Append(emitted, FormatLog(app.module.config, message, inContext))
    /\ UNCHANGED <<rng, now, op, hdr, tc, drawn, wire, ctxs, heap, lastSet, out, rec, fmt, spans, maps, body, clean, again, globalLogType, env, services, shaped, given, serialized, app, objs, frames, ret, http, logs>>

InitModule ==
    /\ rng = 0
    /\ now = 1
    /\ CodecIdle /\ ContextsIdle /\ FormatterIdle /\ SpansIdle /\ SanitizerIdle /\ CyclesIdle /\ InterceptorIdle
    /\ LogTypeIdle /\ SerializersIdle
    /\ app \in {[NoApp EXCEPT !.envRegister = e] : e \in EnvRegisters}
    /\ emitted = <<>>

NextModule ==
    \/ \E config \in LoggerConfigs : ForRoot(config)
    \/ \E config \in LoggerConfigs : ForFeature(config)
    \/ NewService
    \/ \E inContext \in BOOLEAN : Info(JsString(<<"h", "i">>), inContext)

SpecModule == InitModule /\ [][NextModule]_vars

\* C26: a service is constructed only from a configuration that has a
\* SERVICE_NAME, and no record handed to the logger has an undefined service
C26_MissingServiceNameFailsConstruction ==
    /\ app.service # NoService => app.module.config.SERVICE_NAME.t = "string"
    /\ \A i \in 1..Len(emitted) :
           Has(emitted[i], K_service) => Get(emitted[i], K_service).t = "string"

\* C29: once forRoot has registered the module and the service is built, the
\* interceptor, filter and console override are attached exactly when the
\* service resolved the register to neither 0 nor 1
C29_ModuleAndServiceAgreeOnMode ==
    (app.module.kind = "forRoot" /\ app.service # NoService)
        => (app.module.attached <=> app.service.register \notin {0, 1})

\* the two agree on every register value that is absent or a number or a
\* text of digits with at least one digit
RegisterOf(a) == Coalesce(a.module.config.LOG_REGISTER, a.envRegister)
AgreeOffBlankText ==
    (app.module.kind = "forRoot" /\ app.service # NoService
         /\ ~(RegisterOf(app).t = "string" /\ Trim(RegisterOf(app).s) = <<>>))
        => (app.module.attached <=> app.service.register \notin {0, 1})

-----------------------------------------------------------------------------
(* A chain of services: the headers addTraceHeaders writes in one service   *)
(* are the inbound headers of RequestContext.create in the next             *)

\* the request the next service receives: every header written is present,
\* an empty text is an absent header
InboundOf(headers) ==
    [xRequestId |-> IF headers["x-request-id"] = <<>>
                    THEN [kind |-> "undefined", s |-> <<>>]
                    ELSE [kind |-> "string", s |-> headers["x-request-id"]],
     xAmzn |-> headers["x-amzn-trace-id"],
     xCloud |-> headers["x-cloud-trace-context"],
     traceparent |-> headers["traceparent"],
     tracestate |-> headers["tracestate"]]

\* addTraceHeaders() on the last context of the chain, then
\* RequestContext.create(req, logType) in the next service, which runs in the
\* same vendor mode
Hop ==
    LET p == Len(ctxs)
        logType == ctxs[p].logType
        req == InboundOf(TraceHeaders(p, NoHeaders))
        rid == RequestIdOf(req.xRequestId, rng)
        tr == CreateTraceContext(req, logType, rng + Len(rid.drawn), now)
    IN  /\ ctxs # <<>>
        /\ Len(ctxs) < MaxCtx
        /\ ctxs' = Append(ctxs,
                     [requestId |-> rid.id, traceContext |-> tr.tc,
                      logType |-> logType, startTime |-> now,
                      metadata |-> Len(heap) + 1,
                      parent |-> 0, req |-> req, drawn |-> rid.drawn \o tr.drawn])
        /\ heap' = Append(heap, EmptyMap)
        /\ lastSet' = Append(lastSet, EmptyMap)
        /\ rng' = rng + Len(rid.drawn) + Len(tr.drawn)
        /\ out' = [call |-> "create", ctx |-> p + 1]
        /\ UNCHANGED <<now, op, hdr, tc, drawn, wire, rec, fmt, spans, maps, body, clean, again, globalLogType, env, services, shaped, given, serialized, app, emitted, objs, frames, ret, http, logs>>

\* the first service receives any request of the pool; time passes between
\* the hops
NextHops ==
    \/ Tick
    \/ \E req \in Requests, logType \in LogTypes : Create(req, logType)
    \/ Hop

SpecHops == InitContexts /\ [][NextHops]_vars

\* C27: along the chain every service has the trace id of the service
\* before it
C27_TraceIdSurvivesHops ==
    \A i \in 2..Len(ctxs) :
        ctxs[i].traceContext.traceId = ctxs[i - 1].traceContext.traceId

\* the trace id survives every hop out of a service whose own id has the
\* shape of its vendor mode or was parsed in GCP mode
TraceIdSurvivesFromShapedIds ==
    \A i \in 2..Len(ctxs) :
        (ctxs[i - 1].logType = "gcp"
             \/ IsXRayIdAnyCase(ctxs[i - 1].traceContext.traceId))
            => ctxs[i].traceContext.traceId = ctxs[i - 1].traceContext.traceId

-----------------------------------------------------------------------------
(* sanitizeBody on object graphs held by reference, cycles included *)

\* a property value that is a reference to the object named n
Ref(n) == [t |-> "ref", s |-> <<n>>, keys |-> <<>>, kids |-> <<>>]
IsRef(v) == v.t = "ref"

\* an object or array of the graph: its keys (none for an array) and its
\* values, each a primitive or a reference
GraphObject(ks, vs) == [t |-> "object", keys |-> ks, kids |-> vs]
GraphArray(vs) == [t |-> "array", keys |-> <<>>, kids |-> vs]

SelfCycle == [n \in {"a"} |-> GraphObject(<<<<"s", "e", "l", "f">>>>, <<Ref("a")>>)]
ArrayCycle == [n \in {"a"} |-> GraphArray(<<Ref("a"), JsNumber(<<"1">>)>>)]
TwinCycle ==
    [n \in {"a"} |-> GraphObject(<<<<"l", "e", "f", "t">>, <<"n", "a", "m", "e">>, <<"r", "i", "g", "h", "t">>>>,
                                 <<Ref("a"), Ann, Ref("a")>>)]
MutualCycle ==
    [n \in {"a", "b"} |->
        IF n = "a" THEN GraphObject(<<<<"c", "h", "i", "l", "d">>, <<"n", "o", "t", "e">>>>, <<Ref("b"), JsNull>>)
        ELSE GraphArray(<<Ref("a"), Ref("b"), JsTrue>>)]
SecretCycle ==
    [n \in {"a", "b"} |->
        IF n = "a" THEN GraphObject(<<<<"P", "a", "s", "s", "w", "o", "r", "d">>, <<"n", "e", "x", "t">>>>, <<Ref("a"), Ref("b")>>)
        ELSE GraphObject(<<<<"p", "a", "r", "e", "n", "t">>>>, <<Ref("a")>>)]
NoCycle ==
    [n \in {"a", "b"} |->
        IF n = "a" THEN GraphObject(<<<<"c", "h", "i", "l", "d">>, <<"t", "o", "k", "e", "n">>>>, <<Ref("b"), Ann>>)
        ELSE GraphObject(<<<<"n", "a", "m", "e">>>>, <<Ann>>)]

Graphs == {SelfCycle, ArrayCycle, TwinCycle, MutualCycle, SecretCycle, NoCycle}
CyclicGraphs == Graphs \ {NoCycle}

\* the entries a call on object n walks: Object.entries, or slice(0, ARRAY_LENGTH)
EntriesOf(n) ==
    IF objs[n].t = "array" THEN ArraySlice(objs[n].kids, 0, ARRAY_LENGTH)
    ELSE objs[n].kids

Top == frames[Len(frames)]
NextEntry == EntriesOf(Top.node)[Len(Top.acc) + 1]
Walking == frames # <<>> /\ Len(Top.acc) < Len(EntriesOf(Top.node))

\* what the call on object n at this depth stores for its entry i, given the
\* value v computed for it: sanitizeValue(key, v) in an object, v in an array
Stored(n, i, v) ==
    IF objs[n].t = "array" THEN v
    ELSE SanitizeValue(objs[n].keys[i], v, DEFAULT_SENSITIVE_FIELDS)

\* sanitizeBody(obj): the outermost call, depth 0, on the object named a
CallSanitizeBodyGraph(g) ==
    /\ objs = NoGraph
    /\ objs' = g
    /\ IF DepthExceeded(0)
       THEN frames' = <<>> /\ ret' = JsString(MAX_DEPTH_EXCEEDED)
       ELSE frames' = <<[node |-> "a", depth |-> 0, acc |-> <<>>]>> /\ ret' = ret
    /\ UNCHANGED <<rng, now, op, hdr, tc, drawn, wire, ctxs, heap, lastSet, out, rec, fmt, spans, maps, body, clean, again, globalLogType, env, services, shaped, given, serialized, app, emitted, http, logs>>

\* the next entry is an object or array and depth + 1 is below the limit:
\* sanitizeBody(value, sensitiveFields, depth + 1) starts walking it
Descend ==
    /\ Walking
    /\ IsRef(NextEntry)
    /\ ~DepthExceeded(Top.depth + 1)
    /\ frames' = Append(frames, [node |-> NextEntry.s[1], depth |-> Top.depth + 1,
                                 acc |-> <<>>])
    /\ UNCHANGED <<rng, now, op, hdr, tc, drawn, wire, ctxs, heap, lastSet, out, rec, fmt, spans, maps, body, clean, again, globalLogType, env, services, shaped, given, serialized, app, emitted, objs, ret, http, logs>>

\* the next entry is settled without walking: an object at the depth limit
\* becomes the marker, a primitive goes through sanitizeBody in an array and
\* stays as it is in an object (null, whose typeof is 'object', goes through
\* sanitizeBody there too)
Settle ==
    /\ Walking
    /\ IsRef(NextEntry) => DepthExceeded(Top.depth + 1)
    /\ LET v == NextEntry
           value == IF IsRef(v) THEN JsString(MAX_DEPTH_EXCEEDED)
                    ELSE IF objs[Top.node].t = "array" \/ TypeofObject(v)
                    THEN SanitizeBody(v, DEFAULT_SENSITIVE_FIELDS, Top.depth + 1)
                    ELSE v
       IN  frames' = [frames EXCEPT ![Len(frames)].acc =
                         Append(@, Stored(Top.node, Len(Top.acc) + 1, value))]
    /\ UNCHANGED <<rng, now, op, hdr, tc, drawn, wire, ctxs, heap, lastSet, out, rec, fmt, spans, maps, body, clean, again, globalLogType, env, services, shaped, given, serialized, app, emitted, objs, ret, http, logs>>

\* the innermost call has walked all its entries: it returns the new
\* container to its caller, the outermost call to the caller of sanitizeBody
Return ==
    /\ frames # <<>>
    /\ ~Walking
    /\ LET value == IF objs[Top.node].t = "array" THEN JsArray(Top.acc)
                    ELSE JsObject(objs[Top.node].keys, Top.acc)
           rest == SubSeq(frames, 1, Len(frames) - 1)
       IN  IF rest = <<>>
           THEN frames' = <<>> /\ ret' = value
           ELSE /\ frames' = [rest EXCEPT ![Len(rest)].acc =
                                 Append(@, Stored(rest[Len(rest)].node,
                                                  Len(rest[Len(rest)].acc) + 1, value))]
                /\ ret' = ret
    /\ UNCHANGED <<rng, now, op, hdr, tc, drawn, wire, ctxs, heap, lastSet, out, rec, fmt, spans, maps, body, clean, again, globalLogType, env, services, shaped, given, serialized, app, emitted, objs, http, logs>>

InitCycles ==
    /\ rng = 0
    /\ now = 1
    /\ CodecIdle /\ ContextsIdle /\ FormatterIdle /\ SpansIdle /\ SanitizerIdle /\ InterceptorIdle
    /\ LogTypeIdle /\ SerializersIdle /\ ModuleIdle /\ CyclesIdle

NextCycles ==
    \/ \E g \in Graphs : CallSanitizeBodyGraph(g)
    \/ Descend
    \/ Settle
    \/ Return

SpecCycles == InitCycles /\ [][NextCycles]_vars

\* a call that has started keeps running until it returns
SpecCyclesLive == SpecCycles /\ WF_vars(NextCycles)

RECURSIVE Levels(_)
\* the container levels of a value: 0 for a primitive
Levels(v) ==
    IF v.t \notin {"object", "array"} THEN 0
    ELSE LET below == {Levels(v.kids[i]) : i \in 1..Len(v.kids)} \cup {0}
         IN  1 + CHOOSE m \in below : \A x \in below : x <= m

\* C28: on every graph, cyclic ones included, at most JSON_DEPTH calls of
\* sanitizeBody are in progress at any time, the call returns, and the value
\* returned has at most JSON_DEPTH container levels
C28_SanitizeBodyTerminatesOnCycles ==
    /\ [](Len(frames) <= JSON_DEPTH)
    /\ [](ret # NoBody => Levels(ret) <= JSON_DEPTH)
    /\ (objs # NoGraph ~> ret # NoBody)

\* a cyclic graph was walked down to the depth limit and the call returned
C28_Witness ==
    /\ objs \in CyclicGraphs
    /\ frames = <<>>
    /\ ret # NoBody
    /\ Levels(ret) = JSON_DEPTH

-----------------------------------------------------------------------------
(* LoggingInterceptor: src/unnamed/part_011 (interceptors/logging), with    *)
(* shouldExcludePath of src/unnamed/part_003 (config/constants)              *)

EXCLUDED_PATHS == <<<<"/", "h", "e", "a", "l", "t", "h">>, <<"/", "m", "e", "t", "r", "i", "c", "s">>, <<"/", "*", "/", "h", "e", "a", "l", "t", "h">>, <<"/", "*", "/", "m", "e", "t", "r", "i", "c", "s">>>>

\* new RegExp('^' + pattern.replace('*', '[^/]+') + '$').test(path): the
\* first star of the pattern stands for one or more characters other than '/'
MatchesStar(pattern, path) ==
    LET star == IndexOf(pattern, <<"*">>)
        before == SubSeq(pattern, 1, star - 1)
        after == SubSeq(pattern, star + 1, Len(pattern))
        middle == SubSeq(path, Len(before) + 1, Len(path) - Len(after))
    IN  /\ Len(path) > Len(before) + Len(after)
        /\ StartsWith(path, before)
        /\ EndsWith(path, after)
        /\ \A i \in 1..Len(middle) : middle[i] # "/"

\* a mutant of shouldExcludePath: a pattern is compared as it is written
ShouldExcludePathLiteral(path, customExclusions) ==
    \E i \in 1..Len(EXCLUDED_PATHS \o customExclusions) :
        path = (EXCLUDED_PATHS \o customExclusions)[i]

ShouldExcludePath(path, customExclusions) ==
    LET pathsToCheck == EXCLUDED_PATHS \o customExclusions
    IN  \E i \in 1..Len(pathsToCheck) :
            IF Includes(pathsToCheck[i], <<"*">>)
            THEN MatchesStar(pathsToCheck[i], path)
            ELSE path = pathsToCheck[i]

\* getLogLevel(status)
GetLogLevel(status) ==
    IF status >= 500 THEN "error" ELSE IF status >= 400 THEN "warn" ELSE "info"

\* no RequestContext: what asyncStorage.getStore() gives outside run
NoContext == [made |-> FALSE, requestId |-> <<>>, traceId |-> <<>>, spanId |-> <<>>]

\* createBaseLogData(context) with the type of the log and the level it is
\* logged at; slot and when are history: the request the log belongs to and
\* whether its handler had been started
LogData(slot, type, level, context, when) ==
    [slot |-> slot, type |-> type, level |-> level,
     requestId |-> context.requestId, traceId |-> context.traceId,
     spanId |-> context.spanId, when |-> when]

Slots == {"r1", "r2"}
Idle == [pc |-> "idle", path |-> <<>>, ctx |-> NoContext, store |-> NoContext,
         seen |-> NoContext]

Paths ==
    {<<"/", "h", "e", "a", "l", "t", "h">>, <<"/", "m", "e", "t", "r", "i", "c", "s">>, <<"/", "a", "p", "i", "/", "h", "e", "a", "l", "t", "h">>, <<"/", "v", "1", "/", "m", "e", "t", "r", "i", "c", "s">>, <<"/", "u", "s", "e", "r", "s">>,
     <<"/", "h", "e", "a", "l", "t", "h", "/">>, <<"/", "a", "/", "b", "/", "h", "e", "a", "l", "t", "h">>, <<"/", "/", "h", "e", "a", "l", "t", "h">>}
ExcludedByName ==
    {<<"/", "h", "e", "a", "l", "t", "h">>, <<"/", "m", "e", "t", "r", "i", "c", "s">>, <<"/", "a", "p", "i", "/", "h", "e", "a", "l", "t", "h">>, <<"/", "v", "1", "/", "m", "e", "t", "r", "i", "c", "s">>}
InboundRequests ==
    {NoRequest,
     [NoRequest EXCEPT !.xAmzn = ValidXAmzn, !.xCloud = ValidCloud,
                       !.xRequestId = [kind |-> "string", s |-> <<"A", "B", "C", "D", "E", "F", "1", "2">>]]}
Statuses == {404, 500}

\* intercept of an HTTP request, up to the return of the observable: an
\* excluded path gets next.handle() as it is; any other gets a context, a
\* request log, and next.handle() called inside asyncStorage.run, so that
\* the handler is bound to the context
Intercept(slot, path, req, logType) ==
    LET rid == RequestIdOf(req.xRequestId, rng)
        tr == CreateTraceContext(req, logType, rng + Len(rid.drawn), now)
        requestContext == [made |-> TRUE, requestId |-> rid.id,
                           traceId |-> tr.tc.traceId, spanId |-> tr.tc.spanId]
    IN  /\ http[slot].pc = "idle"
        /\ IF ShouldExcludePath(path, <<>>)
           THEN /\ http' = [http EXCEPT ![slot] =
                               [Idle EXCEPT !.pc = "returned", !.path = path]]
                /\ UNCHANGED <<logs, rng>>
           ELSE /\ http' = [http EXCEPT ![slot] =
                               [Idle EXCEPT !.pc = "returned", !.path = path,
                                            !.ctx = requestContext,
                                            !.store = requestContext]]
                /\ logs' = Append(logs, LogData(slot, "request", "info",
                                                requestContext, "before"))
                /\ rng' = rng + Len(rid.drawn) + Len(tr.drawn)
        /\ UNCHANGED <<now, op, hdr, tc, drawn, wire, ctxs, heap, lastSet, out, rec, fmt, spans, maps, body, clean, again, globalLogType, env, services, shaped, given, serialized, app, emitted, objs, frames, ret>>

\* the framework subscribes and the route handler starts; it sees the store
\* its call of next.handle() was bound to
HandlerStarts(slot) ==
    /\ http[slot].pc = "returned"
    /\ http' = [http EXCEPT ![slot].pc = "running", ![slot].seen = http[slot].store]
    /\ UNCHANGED <<rng, now, op, hdr, tc, drawn, wire, ctxs, heap, lastSet, out, rec, fmt, spans, maps, body, clean, again, globalLogType, env, services, shaped, given, serialized, app, emitted, objs, frames, ret, logs>>

\* the handler yields its value: tap's next callback logs the response
HandlerYields(slot) ==
    /\ http[slot].pc = "running"
    /\ http' = [http EXCEPT ![slot].pc = "yielded"]
    /\ logs' = IF http[slot].ctx.made
               THEN Append(logs, LogData(slot, "response", "info",
                                         http[slot].ctx, "after"))
               ELSE logs
    /\ UNCHANGED <<rng, now, op, hdr, tc, drawn, wire, ctxs, heap, lastSet, out, rec, fmt, spans, maps, body, clean, again, globalLogType, env, services, shaped, given, serialized, app, emitted, objs, frames, ret>>

\* the handler fails: tap's error callback sets the status and logs the
\* error at the level of the status
HandlerFails(slot, status) ==
    /\ http[slot].pc = "running"
    /\ http' = [http EXCEPT ![slot].pc = "failed"]
    /\ logs' = IF http[slot].ctx.made
               THEN Append(logs, LogData(slot, "error", GetLogLevel(status),
                                         http[slot].ctx, "after"))
               ELSE logs
    /\ UNCHANGED <<rng, now, op, hdr, tc, drawn, wire, ctxs, heap, lastSet, out, rec, fmt, spans, maps, body, clean, again, globalLogType, env, services, shaped, given, serialized, app, emitted, objs, frames, ret>>

InitInterceptor ==
    /\ rng = 0
    /\ now = 1
    /\ CodecIdle /\ ContextsIdle /\ FormatterIdle /\ SpansIdle /\ SanitizerIdle
    /\ LogTypeIdle /\ SerializersIdle /\ ModuleIdle /\ CyclesIdle
    /\ http = [slot \in Slots |-> Idle]
    /\ logs = <<>>

NextInterceptor ==
    \/ \E slot \in Slots, path \in Paths, req \in InboundRequests, logType \in LogTypes :
           Intercept(slot, path, req, logType)
    \/ \E slot \in Slots : HandlerStarts(slot)
    \/ \E slot \in Slots : HandlerYields(slot)
    \/ \E slot \in Slots, status \in Statuses : HandlerFails(slot, status)

SpecInterceptor == InitInterceptor /\ [][NextInterceptor]_vars

\* the logs of a request of one type, by position in the log
LogsOf(slot, type) ==
    {i \in 1..Len(logs) : logs[i].slot = slot /\ logs[i].type = type}

====
